---- MODULE Spec2Model ----
(***************************************************************************)
(* Model of pdf-price-search.  The query path: the query parser, the value *)
(* objects Zone and Weight, the ShippingService aggregate, the service     *)
(* matcher, the in-memory price cache, the PDF price repository and the    *)
(* PriceSearchService orchestrator.  The loading path: the table           *)
(* extractor, the PDF parser, the service factory, PDFLoaderService and    *)
(* LoadDataUseCase.                                                        *)
(*                                                                         *)
(* Text is modelled as a sequence of one-character strings, so that the    *)
(* regular expressions, str.strip, str.lower and str.split of the source   *)
(* are computed character by character.  Offsets are 0-based and slices    *)
(* are half-open, as in Python.                                            *)
(***************************************************************************)
EXTENDS Integers, Sequences, FiniteSets, TLC

VARIABLES
    query,          \* parser run: the query text handed to QueryParser.parse
    result,         \* parser run: outcome of the last parse of query
    price_table,    \* ShippingService.price_table of the service under test
    last_call,      \* ShippingService: the last set_price / get_price call
    available,      \* matcher run: the list handed to match_service
    matched,        \* matcher run: outcome of the last match_service call
    files,          \* file system: path -> document (or a missing file)
    services,       \* PDFPriceRepository._services (dict, insertion order)
    source_files,   \* PDFPriceRepository._source_files
    cache,          \* PriceCache._cache: key -> CacheEntry
    now,            \* time.time()
    response,       \* the SearchResponse of the last search call
    trace,          \* what the last search call did on its way
    calls,          \* concurrent runs: the search call of each thread
    grid,           \* extractor run: the rows of the table to extract from
    extraction,     \* extractor run: the last extract_weight_prices call
    price_tables,   \* assembler run: ExtractedPDFData.price_tables
    assembled,      \* assembler run: ExtractedPDFData.service_data, once built
    service_input,  \* factory run: the ServicePriceData handed to the factory
    created,        \* factory run: the last create_shipping_service call
    directory,      \* the *.pdf files of the directory, in the order of glob
    loaded_pdfs,    \* PDFLoaderService._loaded_pdfs
    load_call,      \* the last call that loads files, and its outcome
    zone_text,      \* zone run: the text handed to Zone.parse, typed part by part
    zone_call,      \* zone run: the last call of Zone.parse or Zone, and its outcome
    weight_text,    \* weight run: the text handed to Weight.parse, part by part
    weight_from,    \* weight run: the Decimal that the text formats, if any
    weight_call,    \* weight run: the last call of Weight.parse or Weight
    aliases,        \* alias run: ShippingService.service_variants of the service
    alias_call,     \* alias run: the last add_variant call and its outcome
    cache_call,     \* the last call on the PriceCache and what it returned
    last_set,       \* per key, the last set that no delete followed: value, time, ttl
    repo_call,      \* repository run: the last load_from_pdf or refresh_data call, the repository before it and its outcome
    workers         \* cache threads: the PriceCache call of each thread and where it stands

vars == <<query, result, price_table, last_call, available, matched, files, services, source_files, cache, now, response, trace, calls, grid, extraction, price_tables, assembled, service_input, created, directory, loaded_pdfs, load_call, zone_text, zone_call, weight_text, weight_from, weight_call, aliases, alias_call, cache_call, last_set, repo_call, workers>>

parserVars  == <<query, result>>
serviceVars == <<price_table, last_call>>
matcherVars == <<available, matched>>
searchVars  == <<files, services, source_files, cache, now, response, trace>>
threadVars  == <<calls>>
extractorVars == <<grid, extraction>>
assemblerVars == <<price_tables, assembled>>
factoryVars == <<service_input, created>>
loaderVars  == <<directory, loaded_pdfs, load_call>>
zoneVars    == <<zone_text, zone_call>>
weightVars  == <<weight_text, weight_from, weight_call>>
aliasVars   == <<aliases, alias_call>>
cacheVars   == <<cache_call, last_set>>
repoVars    == <<repo_call>>
workerVars  == <<workers>>

----------------------------------------------------------------------------
(* Bounds of the model *)

MaxTokens == 4      \* words of a space-separated query
MaxParts == 5       \* parts of a comma-separated query
MaxCalls == 3       \* set_price calls on one ShippingService
MaxServices == 2    \* services in the list handed to the matcher
MaxClock == 1       \* times the clock advances by one time-to-live
MaxRows == 4        \* rows of a table, the two header rows included
MaxTables == 2      \* price tables of one extracted document
MaxTriples == 2     \* prices of the ServicePriceData handed to the factory
MaxFiles == 2       \* *.pdf files of the directory
MaxZoneParts == 3   \* parts of the text handed to Zone.parse
MaxLoads == 2       \* entries of _loaded_pdfs before the last loading call
MaxWeightParts == 3 \* parts of the text handed to Weight.parse
MaxAliases == 3     \* entries of service_variants before an add_variant call
MaxTime == 3        \* seconds of the clock of a cache run
MaxSetPrices == 2   \* set_price calls on a service that the factory made

----------------------------------------------------------------------------
(* Python values *)

None == [some |-> FALSE, val |-> <<>>]
Some(v) == [some |-> TRUE, val |-> v]

Min(a, b) == IF a <= b THEN a ELSE b
Max(a, b) == IF a >= b THEN a ELSE b

UpperLetters == <<"A","B","C","D","E","F","G","H","I","J","K","L","M",
                  "N","O","P","Q","R","S","T","U","V","W","X","Y","Z">>
LowerLetters == <<"a","b","c","d","e","f","g","h","i","j","k","l","m",
                  "n","o","p","q","r","s","t","u","v","w","x","y","z">>
Digits == <<"0","1","2","3","4","5","6","7","8","9">>

UpperSet == {UpperLetters[i] : i \in 1..26}
LowerSet == {LowerLetters[i] : i \in 1..26}
DigitSet == {Digits[i] : i \in 1..10}
WhiteSpace == {" ", "\t", "\n"}
WordChars == UpperSet \cup LowerSet \cup DigitSet \cup {"_"}
LowerOf == [c \in UpperSet |->
               LowerLetters[CHOOSE i \in 1..26 : UpperLetters[i] = c]]
ValueOf == [c \in DigitSet |-> (CHOOSE i \in 1..10 : Digits[i] = c) - 1]

IsDigit(c) == c \in DigitSet
IsSpace(c) == c \in WhiteSpace
IsWordChar(c) == c \in WordChars
DigitValue(c) == ValueOf[c]

\* str.lower on one character
LowerChar(c) == IF c \in UpperSet THEN LowerOf[c] ELSE c

\* str.lower
Lower(s) == [i \in 1..Len(s) |-> LowerChar(s[i])]

\* s[a:b] with 0 <= a, b <= len(s)
Slice(s, a, b) == SubSeq(s, a + 1, b)

\* s[a:]
SliceFrom(s, a) == SubSeq(s, a + 1, Len(s))

\* end offset of the longest run of characters of s from offset i that are
\* digits (\d*), white space (\s*) or digits and periods ([\d.]*)
RECURSIVE DigitsEnd(_, _)
DigitsEnd(s, i) ==
    IF i < Len(s) /\ IsDigit(s[i + 1]) THEN DigitsEnd(s, i + 1) ELSE i

RECURSIVE SpacesEnd(_, _)
SpacesEnd(s, i) ==
    IF i < Len(s) /\ IsSpace(s[i + 1]) THEN SpacesEnd(s, i + 1) ELSE i

RECURSIVE NumberEnd(_, _)
NumberEnd(s, i) ==
    IF i < Len(s) /\ (IsDigit(s[i + 1]) \/ s[i + 1] = ".")
    THEN NumberEnd(s, i + 1) ELSE i

\* start offset of the white space that ends at offset j
RECURSIVE SpacesStart(_, _)
SpacesStart(s, j) ==
    IF j > 0 /\ IsSpace(s[j]) THEN SpacesStart(s, j - 1) ELSE j

\* str.strip
Strip(s) ==
    LET a == SpacesEnd(s, 0)
        b == SpacesStart(s, Len(s))
    IN  IF a >= b THEN <<>> ELSE Slice(s, a, b)

\* a literal of a pattern compiled with re.IGNORECASE matches s at offset i
LitAt(s, i, lit) ==
    /\ i + Len(lit) <= Len(s)
    /\ \A k \in 1..Len(lit) : LowerChar(s[i + k]) = lit[k]

\* int(text) of a string of digits
RECURSIVE ToInt(_)
ToInt(ds) ==
    IF ds = <<>> THEN 0
    ELSE 10 * ToInt(SubSeq(ds, 1, Len(ds) - 1)) + DigitValue(ds[Len(ds)])

----------------------------------------------------------------------------
(* decimal.Decimal: coefficient m and e digits after the point, m / 10^e, *)
(* plus low / 10^21: low is the digit of the twenty-first decimal place,   *)
(* which a Decimal keeps and a float of a number above 1/1000 does not.    *)
(* str(Decimal) is determined by the record, so the record is also the     *)
(* string form used as a key of the price table.                           *)

RECURSIVE Pow10(_)
Pow10(n) == IF n = 0 THEN 1 ELSE 10 * Pow10(n - 1)

Dec(m, e) == [m |-> m, e |-> e, low |-> 0]

\* Decimal("m.000000000000000000001"), for e = 0
Long(m, e) == [m |-> m, e |-> e, low |-> 1]

\* Decimal.__eq__: numeric equality
DecEq(a, b) == a.m * Pow10(b.e) = b.m * Pow10(a.e) /\ a.low = b.low

\* float(Decimal) and float(str): the nearest float, given by the pair
\* without trailing zeros; the digit of the twenty-first place is lost
\* behind a coefficient that is not zero
RECURSIVE ToFloat(_)
ToFloat(d) ==
    IF d.e > 0 /\ d.m % 10 = 0
    THEN ToFloat([d EXCEPT !.m = d.m \div 10, !.e = d.e - 1])
    ELSE [d EXCEPT !.low = IF d.m = 0 THEN d.low ELSE 0]

\* Decimal(text) for text matched by [\d.]+ : InvalidOperation unless the
\* text has at most one period and at least one digit
DecimalOf(text) ==
    LET dots == {i \in 1..Len(text) : text[i] = "."}
        ds == SelectSeq(text, IsDigit)
    IN  IF Cardinality(dots) > 1 \/ ds = <<>>
        THEN [ok |-> FALSE, exc |-> "InvalidOperation"]
        ELSE [ok |-> TRUE,
              value |-> Dec(ToInt(ds),
                            IF dots = {} THEN 0
                            ELSE Len(text) - (CHOOSE i \in dots : TRUE))]

\* str(n) of an integer that is not negative
RECURSIVE IntDigits(_)
IntDigits(n) ==
    IF n < 10 THEN <<Digits[n + 1]>>
    ELSE IntDigits(n \div 10) \o <<Digits[(n % 10) + 1]>>

Zeros(k) == [i \in 1..k |-> "0"]

\* Decimal.__str__ with the digits int of the coefficient, leftdigits =
\* exponent + len(int), and dotplace, the place of the period
StrAt(sign, int, leftdigits, dotplace) ==
    sign
    \o (IF dotplace <= 0 THEN <<"0", ".">> \o Zeros(-dotplace) \o int
        ELSE IF dotplace >= Len(int) THEN int \o Zeros(dotplace - Len(int))
        ELSE SubSeq(int, 1, dotplace) \o <<".">>
                 \o SubSeq(int, dotplace + 1, Len(int)))
    \o (IF leftdigits = dotplace THEN <<>>
        ELSE <<"E", IF leftdigits < dotplace THEN "-" ELSE "+">>
                 \o IntDigits(IF leftdigits < dotplace
                              THEN dotplace - leftdigits
                              ELSE leftdigits - dotplace))

\* Decimal.__str__ with the digits of the coefficient: the exponent is -e,
\* which is not positive, and scientific notation is used when leftdigits
\* is -6 or less
StrOf(sign, int, e) ==
    StrAt(sign, int, Len(int) - e,
          IF Len(int) - e > -6 THEN Len(int) - e ELSE 1)

\* str(d) and format(d, "") of a Decimal whose twenty-first place is 0
DecimalStr(d) ==
    StrOf(IF d.m < 0 THEN <<"-">> ELSE <<>>,
          IntDigits(IF d.m < 0 THEN -d.m ELSE d.m), d.e)

----------------------------------------------------------------------------
(* Exceptions: a record per exception object, one field per attribute the  *)
(* constructor sets.  A formatted message is kept as its interpolated      *)
(* parts.                                                                  *)

Raise(e) == [ok |-> FALSE, exc |-> e]

InvalidZoneException(value, reason) ==
    [type |-> "InvalidZoneException",
     message |-> [text |-> "Invalid zone", reason |-> reason],
     value |-> value]

InvalidWeightException(value, reason) ==
    [type |-> "InvalidWeightException",
     message |-> [text |-> "Invalid weight", reason |-> reason],
     value |-> value]

InvalidQueryException(q, reason) ==
    [type |-> "InvalidQueryException",
     message |-> [text |-> "Invalid query", query |-> q, reason |-> reason],
     query |-> q]

PriceNotFoundException(service, zone, weight) ==
    [type |-> "PriceNotFoundException",
     message |-> [text |-> "Price not found", service |-> service,
                  zone |-> zone, weight |-> weight],
     service |-> service, zone |-> zone, weight |-> weight]

\* the reason of an InvalidQueryException: its text and, for a wrapped
\* zone or weight error, the reason of the wrapped exception
Reason(text, cause) == [text |-> text, cause |-> cause]

----------------------------------------------------------------------------
(* Zone *)

MIN_ZONE == 1
MAX_ZONE == 8

\* Zone.__init__ without the range check
Zone_unbounded(value) == [ok |-> TRUE, value |-> value]

\* Zone.__init__
Zone(value) ==
    IF ~(MIN_ZONE <= value /\ value <= MAX_ZONE)
    THEN Raise(InvalidZoneException(value, "Zone must be between 1 and 8"))
    ELSE [ok |-> TRUE, value |-> value]

\* Zone.parse on a string: the three patterns, tried in order
Zone_parse(zone_str) ==
    LET cleaned == Strip(zone_str)
        n == Len(cleaned)
        \* ^z(\d+)$
        p1 == LitAt(cleaned, 0, <<"z">>) /\ n > 1 /\ DigitsEnd(cleaned, 1) = n
        \* ^zone\s*(\d+)$
        k2 == SpacesEnd(cleaned, 4)
        p2 == /\ LitAt(cleaned, 0, <<"z","o","n","e">>)
              /\ n > k2 /\ DigitsEnd(cleaned, k2) = n
        \* ^(\d+)$
        p3 == n > 0 /\ DigitsEnd(cleaned, 0) = n
    IN  IF cleaned = <<>>
        THEN Raise(InvalidZoneException(zone_str, "Empty zone string"))
        ELSE IF p1 THEN Zone(ToInt(SliceFrom(cleaned, 1)))
        ELSE IF p2 THEN Zone(ToInt(SliceFrom(cleaned, k2)))
        ELSE IF p3 THEN Zone(ToInt(cleaned))
        ELSE Raise(InvalidZoneException(zone_str, "Format not recognized"))

----------------------------------------------------------------------------
(* Runs of Zone: a text is typed part by part and handed to Zone.parse,    *)
(* or a number is handed to the constructor.                               *)

ZoneParts ==
    { <<"z">>, <<"Z">>, <<"z","o","n","e">>, <<"z","o","n","e"," ">>,
      <<"Z","o","n","e"," ">>, <<" ">>, <<"x">> }
    \cup {<<d>> : d \in DigitSet}

\* the text that the parts typed make
RECURSIVE Concat(_)
Concat(parts) ==
    IF parts = <<>> THEN <<>> ELSE Head(parts) \o Concat(Tail(parts))

\* the integers handed to the constructor
ZoneNumbers == {MIN_ZONE - 1, MIN_ZONE, MAX_ZONE, MAX_ZONE + 1}

NoZoneCall == [op |-> "none"]

InitZone ==
    /\ zone_text = <<>>
    /\ zone_call = NoZoneCall

\* a part is typed
TypeZonePart(part) ==
    /\ Len(zone_text) < MaxZoneParts
    /\ zone_text' = Append(zone_text, part)
    /\ zone_call' = NoZoneCall
    /\ UNCHANGED <<workerVars, repoVars, cacheVars, aliasVars, weightVars, loaderVars, factoryVars, assemblerVars, extractorVars,
                   threadVars, parserVars, serviceVars, matcherVars,
                   searchVars>>

\* Zone.parse(zone_str) with the text typed
ZoneParse ==
    /\ zone_call' = [op |-> "parse", zone_str |-> Concat(zone_text),
                     zone |-> Zone_parse(Concat(zone_text))]
    /\ UNCHANGED <<workerVars, repoVars, cacheVars, aliasVars, weightVars, zone_text, loaderVars, factoryVars, assemblerVars,
                   extractorVars, threadVars, parserVars, serviceVars,
                   matcherVars, searchVars>>

\* Zone(value)
ZoneInit(value) ==
    /\ zone_call' = [op |-> "init", value |-> value, zone |-> Zone(value)]
    /\ UNCHANGED <<workerVars, repoVars, cacheVars, aliasVars, weightVars, zone_text, loaderVars, factoryVars, assemblerVars,
                   extractorVars, threadVars, parserVars, serviceVars,
                   matcherVars, searchVars>>

----------------------------------------------------------------------------
(* Weight *)

\* Weight.__init__ on a Decimal
Weight(decimal_value) ==
    IF decimal_value.m < 0 \/ (decimal_value.m = 0 /\ decimal_value.low = 0)
    THEN Raise(InvalidWeightException(decimal_value,
                                      "Weight must be positive"))
    ELSE [ok |-> TRUE, value |-> decimal_value]

\* the units of the weight patterns, in the order of the alternation
Units == << <<"l","b">>, <<"l","b","s">>, <<"p","o","u","n","d">>,
            <<"p","o","u","n","d","s">> >>

\* Weight.parse on a string: ^([\d.]+)\s*(lb|lbs|pound|pounds)?$
Weight_parse(weight_str) ==
    LET cleaned == Strip(weight_str)
        n == NumberEnd(cleaned, 0)
        k == SpacesEnd(cleaned, n)
        rest == Lower(SliceFrom(cleaned, k))
        matches == n > 0 /\ (rest = <<>> \/ \E u \in 1..4 : rest = Units[u])
        weight_value == DecimalOf(Slice(cleaned, 0, n))
    IN  IF cleaned = <<>>
        THEN Raise(InvalidWeightException(weight_str, "Empty weight string"))
        ELSE IF ~matches
        THEN Raise(InvalidWeightException(weight_str, "Format not recognized"))
        ELSE IF ~weight_value.ok
        THEN Raise(InvalidWeightException(weight_str,
                                          "Cannot convert to decimal"))
        ELSE Weight(weight_value.value)

----------------------------------------------------------------------------
(* Runs of Weight: a text is typed part by part, or a Decimal is formatted *)
(* into a text with a unit, and the text is handed to Weight.parse; or a   *)
(* Decimal is handed to the constructor.                                   *)

WeightParts ==
    { <<"0">>, <<"3">>, <<"5">>, <<".">>, <<"-">>, <<" ">>, <<"l","b">>,
      <<"l","b","s">>, <<"k","g">>, <<"x">> }

\* the Decimals that are formatted or handed to the constructor: 3, 2.75
\* and 0.000003 among them, and zero and negative ones
WeightDecimals == {Dec(m, e) : m \in {-5, 0, 3, 275}, e \in {0, 1, 2, 7}}

\* what follows the number in "{w} lb", "{w}lb", "{w} lbs" and "{w}"
FormUnits == { <<" ","l","b">>, <<"l","b">>, <<" ","l","b","s">>, <<>> }

NoWeightCall == [op |-> "none"]

InitWeight ==
    /\ weight_text = <<>>
    /\ weight_from = None
    /\ weight_call = NoWeightCall

\* a part is typed
TypeWeightPart(part) ==
    /\ Len(weight_text) < MaxWeightParts
    /\ weight_from = None
    /\ weight_text' = Append(weight_text, part)
    /\ weight_call' = NoWeightCall
    /\ UNCHANGED <<workerVars, repoVars, cacheVars, aliasVars, weight_from, zoneVars, loaderVars, factoryVars,
                   assemblerVars, extractorVars, threadVars, parserVars,
                   serviceVars, matcherVars, searchVars>>

\* f"{w}{unit}"
FormatWeight(w, unit) ==
    /\ weight_text' = <<DecimalStr(w), unit>>
    /\ weight_from' = Some(w)
    /\ weight_call' = NoWeightCall
    /\ UNCHANGED <<workerVars, repoVars, cacheVars, aliasVars, zoneVars, loaderVars, factoryVars, assemblerVars,
                   extractorVars, threadVars, parserVars, serviceVars,
                   matcherVars, searchVars>>

\* Weight.parse(weight_str) with the text typed or formatted
WeightParse ==
    /\ weight_call' = [op |-> "parse", weight_str |-> Concat(weight_text),
                       weight |-> Weight_parse(Concat(weight_text))]
    /\ UNCHANGED <<workerVars, repoVars, cacheVars, aliasVars, weight_text, weight_from, zoneVars, loaderVars,
                   factoryVars, assemblerVars, extractorVars, threadVars,
                   parserVars, serviceVars, matcherVars, searchVars>>

\* Weight(value) with a Decimal
WeightInit(value) ==
    /\ weight_call' = [op |-> "init", value |-> value,
                       weight |-> Weight(value)]
    /\ UNCHANGED <<workerVars, repoVars, cacheVars, aliasVars, weight_text, weight_from, zoneVars, loaderVars,
                   factoryVars, assemblerVars, extractorVars, threadVars,
                   parserVars, serviceVars, matcherVars, searchVars>>

----------------------------------------------------------------------------
(* PriceQuery *)

\* PriceQuery.__init__: service_type is never empty where the parser calls
\* it; the packaging note is stripped and an empty one becomes None
PriceQuery(service_type, zone, weight, packaging_type) ==
    [ok |-> TRUE,
     service_type |-> Strip(service_type),
     zone |-> zone,
     weight |-> weight,
     packaging_type |->
        IF packaging_type.some /\ Strip(packaging_type.val) # <<>>
        THEN Some(Strip(packaging_type.val)) ELSE None]

----------------------------------------------------------------------------
(* QueryParser *)

NoMatch == [some |-> FALSE, start |-> 0, end |-> 0, group |-> <<>>]

\* re.search(pattern, s, re.IGNORECASE): the match at the leftmost offset
\* where the pattern matches; ends[i] is the end offset of the match of the
\* pattern at offset i, or -1
re_search(s, ends) ==
    LET starts == {i \in 0..Len(s) : ends[i] >= 0}
    IN  IF starts = {} THEN NoMatch
        ELSE LET i == CHOOSE a \in starts : \A b \in starts : a <= b
             IN  [some |-> TRUE, start |-> i, end |-> ends[i],
                  group |-> Slice(s, i, ends[i])]

\* (?:z|zone)\s*\d+ at offset i: the alternative z is tried first, zone
\* only when no digits follow z
zone_pattern(s, i) ==
    LET k1 == SpacesEnd(s, i + 1)
        k2 == SpacesEnd(s, i + 4)
    IN  IF LitAt(s, i, <<"z">>) /\ DigitsEnd(s, k1) > k1
        THEN DigitsEnd(s, k1)
        ELSE IF LitAt(s, i, <<"z","o","n","e">>) /\ DigitsEnd(s, k2) > k2
        THEN DigitsEnd(s, k2)
        ELSE -1

\* \b after a unit that ends at offset e
WordBoundary(s, e) == e = Len(s) \/ ~IsWordChar(s[e + 1])

\* [\d.]+\s*(?:lb|lbs|pound|pounds)\b at offset i: the runs are greedy and
\* the first unit of the alternation that ends at a word boundary is taken
weight_pattern(s, i) ==
    LET n == NumberEnd(s, i)
        k == SpacesEnd(s, n)
        us == {u \in 1..4 : LitAt(s, k, Units[u])
                            /\ WordBoundary(s, k + Len(Units[u]))}
    IN  IF n > i /\ us # {}
        THEN k + Len(Units[CHOOSE u \in us : \A v \in us : u <= v])
        ELSE -1

\* re.search(zone_pattern, s, re.IGNORECASE)
zone_search(s) == re_search(s, [i \in 0..Len(s) |-> zone_pattern(s, i)])

\* re.search(weight_pattern, s, re.IGNORECASE)
weight_search(s) == re_search(s, [i \in 0..Len(s) |-> weight_pattern(s, i)])

\* QueryParser._find_zone_and_weight: the weight match is taken in the text
\* after the zone match, else in the text before it, and its offsets are
\* those of the text it was found in
_find_zone_and_weight(q) ==
    LET zone_match == zone_search(q)
        remaining_after == SliceFrom(q, zone_match.end)
        before_zone == Slice(q, 0, zone_match.start)
        after == weight_search(remaining_after)
        weight_match ==
            IF ~zone_match.some THEN NoMatch
            ELSE IF after.some THEN after
            ELSE weight_search(before_zone)
    IN  <<zone_match, weight_match>>

\* QueryParser._parse_space_separated, once both matches are found: the
\* service type, the packaging note, the zone and the weight
SpaceSeparatedQuery(q, zone_match, weight_match) ==
    LET weight_before_zone == weight_match.start < zone_match.start
        service_end ==
            IF weight_before_zone THEN weight_match.start
            ELSE zone_match.start
        weight_absolute_end ==
            IF weight_before_zone THEN zone_match.end
            ELSE zone_match.end + weight_match.end
        stripped == Strip(Slice(q, 0, service_end))
        service_type ==
            IF stripped = <<>> THEN <<"S","t","a","n","d","a","r","d">>
            ELSE stripped
        packaging_type ==
            IF weight_absolute_end < Len(q)
            THEN Some(Strip(SliceFrom(q, weight_absolute_end)))
            ELSE None
        zone == Zone_parse(zone_match.group)
        weight == Weight_parse(weight_match.group)
    IN  IF ~zone.ok
        THEN Raise(InvalidQueryException(q,
                 Reason("Invalid zone", zone.exc.message.reason)))
        ELSE IF ~weight.ok
        THEN Raise(InvalidQueryException(q,
                 Reason("Invalid weight", weight.exc.message.reason)))
        ELSE PriceQuery(service_type, zone.value, weight.value,
                        packaging_type)

\* _parse_space_separated with the two checks in the other order
_parse_space_separated_weight_first(q) ==
    LET found == _find_zone_and_weight(q)
    IN  IF ~found[2].some
        THEN Raise(InvalidQueryException(q,
                 Reason("Cannot find weight in query", "")))
        ELSE IF ~found[1].some
        THEN Raise(InvalidQueryException(q,
                 Reason("Cannot find zone in query", "")))
        ELSE SpaceSeparatedQuery(q, found[1], found[2])

\* QueryParser._parse_space_separated
_parse_space_separated(q) ==
    LET found == _find_zone_and_weight(q)
    IN  IF ~found[1].some
        THEN Raise(InvalidQueryException(q,
                 Reason("Cannot find zone in query", "")))
        ELSE IF ~found[2].some
        THEN Raise(InvalidQueryException(q,
                 Reason("Cannot find weight in query", "")))
        ELSE SpaceSeparatedQuery(q, found[1], found[2])

\* str.split(","): the parts of s between its commas
RECURSIVE Split(_)
Split(s) ==
    LET commas == {i \in 1..Len(s) : s[i] = ","}
    IN  IF commas = {} THEN <<s>>
        ELSE LET i == CHOOSE a \in commas : \A b \in commas : a <= b
             IN  <<SubSeq(s, 1, i - 1)>> \o Split(SubSeq(s, i + 1, Len(s)))

\* QueryParser._parse_comma_separated, once the number of parts is accepted
CommaSeparatedQuery(q, parts) ==
    LET service_type == parts[1]
        zone == Zone_parse(parts[2])
        weight == Weight_parse(parts[3])
        packaging_type == IF Len(parts) = 4 THEN Some(parts[4]) ELSE None
    IN  IF service_type = <<>>
        THEN Raise(InvalidQueryException(q,
                 Reason("Service type is empty", "")))
        ELSE IF ~zone.ok
        THEN Raise(InvalidQueryException(q,
                 Reason("Invalid zone", zone.exc.message.reason)))
        ELSE IF ~weight.ok
        THEN Raise(InvalidQueryException(q,
                 Reason("Invalid weight", weight.exc.message.reason)))
        ELSE PriceQuery(service_type, zone.value, weight.value,
                        packaging_type)

\* _parse_comma_separated that lets a fifth part through
_parse_comma_separated_five(q) ==
    LET split == Split(q)
        parts == [i \in 1..Len(split) |-> Strip(split[i])]
    IN  IF Len(parts) < 3
        THEN Raise(InvalidQueryException(q,
                 Reason("Comma-separated format requires at least 3 parts",
                        "")))
        ELSE IF Len(parts) > 5
        THEN Raise(InvalidQueryException(q,
                 Reason("Comma-separated format supports at most 4 parts",
                        "")))
        ELSE CommaSeparatedQuery(q, parts)

\* QueryParser._parse_comma_separated
_parse_comma_separated(q) ==
    LET split == Split(q)
        parts == [i \in 1..Len(split) |-> Strip(split[i])]
    IN  IF Len(parts) < 3
        THEN Raise(InvalidQueryException(q,
                 Reason("Comma-separated format requires at least 3 parts",
                        "")))
        ELSE IF Len(parts) > 4
        THEN Raise(InvalidQueryException(q,
                 Reason("Comma-separated format supports at most 4 parts",
                        "")))
        ELSE CommaSeparatedQuery(q, parts)

\* QueryParser.parse
parse(text) ==
    LET q == Strip(text)
    IN  IF q = <<>>
        THEN Raise(InvalidQueryException(q, Reason("Empty query string", "")))
        ELSE IF \E i \in 1..Len(q) : q[i] = ","
        THEN _parse_comma_separated(q)
        ELSE _parse_space_separated(q)

----------------------------------------------------------------------------
(* Parser runs: a query is typed word by word (space-separated runs) or    *)
(* part by part (comma-separated runs) and handed to QueryParser.parse.    *)

\* the words of the space-separated runs, with the white space before them
Words ==
    { <<" ","E","x">>,
      <<" ","z","5">>,
      <<"z","5">>,
      <<" ","z","o","n","e"," ","9">>,
      <<" ","3","l","b">>,
      <<"3","l","b">>,
      <<" ","1",".","5"," ","l","b","s">>,
      <<" ","b","o","x">> }

\* the parts of the comma-separated runs
Parts ==
    { <<>>,
      <<"E","x">>,
      <<" ","z","5"," ">>,
      <<"Z","o","n","e"," ","9">>,
      <<"3"," ","l","b">>,
      <<"5">> }

\* the text typed so far: the concatenation of the typed pieces
RECURSIVE Text(_)
Text(pieces) ==
    IF pieces = <<>> THEN <<>> ELSE Head(pieces) \o Text(Tail(pieces))

NotParsed == [done |-> FALSE]

InitParser ==
    /\ query = <<>>
    /\ result = NotParsed

\* the user types one more word of a space-separated query
TypeWord(w) ==
    /\ Len(query) < MaxTokens
    /\ query' = Append(query, w)
    /\ result' = NotParsed
    /\ UNCHANGED <<workerVars, repoVars, cacheVars, aliasVars, weightVars, zoneVars, loaderVars, factoryVars, assemblerVars, extractorVars, threadVars, serviceVars, matcherVars, searchVars>>

\* the user types one more part of a comma-separated query
TypePart(p) ==
    /\ Len(query) < MaxParts
    /\ query' = Append(query, IF query = <<>> THEN p ELSE <<",">> \o p)
    /\ result' = NotParsed
    /\ UNCHANGED <<workerVars, repoVars, cacheVars, aliasVars, weightVars, zoneVars, loaderVars, factoryVars, assemblerVars, extractorVars, threadVars, serviceVars, matcherVars, searchVars>>

\* QueryParser.parse(query)
ParseQuery ==
    /\ result' = [done |-> TRUE, out |-> parse(Text(query))]
    /\ UNCHANGED <<workerVars, repoVars, cacheVars, aliasVars, weightVars, zoneVars, loaderVars, factoryVars, assemblerVars, extractorVars, threadVars, query, serviceVars, matcherVars, searchVars>>

----------------------------------------------------------------------------
(* Python dict: a sequence of entries in insertion order *)

Entry(k, v) == [key |-> k, value |-> v]

DictHas(d, k) == \E i \in 1..Len(d) : d[i].key = k

DictGet(d, k) == d[CHOOSE i \in 1..Len(d) : d[i].key = k].value

\* d[k] = v: an existing key keeps its place
DictSet(d, k, v) ==
    IF DictHas(d, k)
    THEN [i \in 1..Len(d) |-> IF d[i].key = k THEN Entry(k, v) ELSE d[i]]
    ELSE Append(d, Entry(k, v))

----------------------------------------------------------------------------
(* ShippingService.  A Zone argument is given by its value, a Weight       *)
(* argument by its Decimal; prices are in cents.                           *)

\* ShippingService.__init__
ShippingService(service_name, service_variants, table) ==
    [service_name |-> Strip(service_name),
     service_variants |-> service_variants,
     price_table |-> table]

\* ShippingService.get_price
get_price(service_name, table, zone, weight) ==
    LET zone_prices == DictGet(table, zone)
        weight_key == weight
        weight_float == ToFloat(weight)
        equal == {i \in 1..Len(zone_prices) :
                      ToFloat(zone_prices[i].key) = weight_float}
    IN  IF ~DictHas(table, zone)
        THEN Raise(PriceNotFoundException(service_name, zone, weight_float))
        ELSE IF DictHas(zone_prices, weight_key)
        THEN [ok |-> TRUE, value |-> DictGet(zone_prices, weight_key)]
        ELSE IF equal # {}
        THEN [ok |-> TRUE,
              value |-> zone_prices[CHOOSE i \in equal :
                                       \A j \in equal : i <= j].value]
        ELSE Raise(PriceNotFoundException(service_name, zone, weight_float))

\* ShippingService.set_price replacing the prices of the zone
set_price_replacing(table, zone, weight, price) ==
    IF price < 0
    THEN [ok |-> FALSE, exc |-> "ValueError", price_table |-> table]
    ELSE [ok |-> TRUE,
          price_table |-> DictSet(table, zone, <<Entry(weight, price)>>)]

\* ShippingService.set_price: the price table after the call
set_price(table, zone, weight, price) ==
    IF price < 0
    THEN [ok |-> FALSE, exc |-> "ValueError", price_table |-> table]
    ELSE [ok |-> TRUE,
          price_table |->
            LET with_zone == IF DictHas(table, zone) THEN table
                             ELSE DictSet(table, zone, <<>>)
            IN  DictSet(with_zone, zone,
                        DictSet(DictGet(with_zone, zone), weight, price))]

\* ShippingService.is_service_match
is_service_match(service, q) ==
    LET query_normalized == Lower(Strip(q))
    IN  \/ Lower(service.service_name) = query_normalized
        \/ \E i \in 1..Len(service.service_variants) :
               Lower(service.service_variants[i]) = query_normalized

\* ShippingService.add_variant without the test for a known variant
add_variant_unchecked(service_variants, variant) ==
    IF Strip(variant) = <<>>
    THEN [ok |-> FALSE, exc |-> "ValueError",
          service_variants |-> service_variants]
    ELSE [ok |-> TRUE,
          service_variants |-> Append(service_variants, Strip(variant))]

\* ShippingService.add_variant: service_variants after the call
add_variant(service_variants, variant) ==
    IF Strip(variant) = <<>>
    THEN [ok |-> FALSE, exc |-> "ValueError",
          service_variants |-> service_variants]
    ELSE IF \E i \in 1..Len(service_variants) :
                service_variants[i] = Strip(variant)
    THEN [ok |-> FALSE, exc |-> "ValueError",
          service_variants |-> service_variants]
    ELSE [ok |-> TRUE,
          service_variants |-> Append(service_variants, Strip(variant))]

(* Runs of one ShippingService: set_price and get_price calls *)

ZoneArgs == {5, 6}
WeightArgs == {Dec(3, 0), Dec(30, 1), Dec(4, 0), Long(3, 0)}
PriceArgs == {-1, 1000, 2000}

InitService ==
    /\ price_table = <<>>
    /\ last_call = [op |-> "none", calls |-> 0]

SetPrice(z, w, p) ==
    /\ last_call.calls < MaxCalls
    /\ LET r == set_price(price_table, z, w, p)
       IN  /\ price_table' = r.price_table
           /\ last_call' = [op |-> "set_price",
                            calls |-> last_call.calls + 1,
                            zone |-> z, weight |-> w, price |-> p,
                            ok |-> r.ok]
    /\ UNCHANGED <<workerVars, repoVars, cacheVars, aliasVars, weightVars, zoneVars, loaderVars, factoryVars, assemblerVars, extractorVars, threadVars, parserVars, matcherVars, searchVars>>

GetPrice(z, w) ==
    /\ last_call' = [op |-> "get_price", calls |-> last_call.calls,
                     zone |-> z, weight |-> w,
                     out |-> get_price(<<"s">>, price_table, z, w)]
    /\ UNCHANGED <<workerVars, repoVars, cacheVars, aliasVars, weightVars, zoneVars, loaderVars, factoryVars, assemblerVars, extractorVars, threadVars, price_table,
                   parserVars, matcherVars, searchVars>>

----------------------------------------------------------------------------
(* Runs of the aliases of one ShippingService: the service is created with *)
(* a list of aliases without duplicates, and add_variant is called.        *)

AliasArgs ==
    { <<"2","D","a","y">>, <<" ","2","D","a","y"," ">>,
      <<"2","d","a","y">>, <<"G","r","o","u","n","d">>,
      <<"G","r","o","u","n","d"," ">>, <<"F","O">>, <<>>, <<" "," ">> }

\* the lists handed to the constructor
AliasLists ==
    { <<>>, << <<"2","D","a","y">> >>,
      << <<"2","D","a","y">>, <<"G","r","o","u","n","d">> >>,
      << <<"G","r","o","u","n","d"," ">> >> }

NoAliasCall == [op |-> "none"]

InitAliases ==
    /\ aliases = <<>>
    /\ alias_call = NoAliasCall

\* ShippingService(service_name, service_variants)
CreateService(service_variants) ==
    /\ aliases' = ShippingService(<<"s">>, service_variants,
                                  <<>>).service_variants
    /\ alias_call' = NoAliasCall
    /\ UNCHANGED <<workerVars, repoVars, cacheVars, weightVars, zoneVars, loaderVars, factoryVars,
                   assemblerVars, extractorVars, threadVars, parserVars,
                   serviceVars, matcherVars, searchVars>>

\* service.add_variant(variant)
AddVariant(variant) ==
    /\ Len(aliases) < MaxAliases
    /\ aliases' = add_variant(aliases, variant).service_variants
    /\ alias_call' = [op |-> "add_variant", variant |-> variant,
                      before |-> aliases,
                      ok |-> add_variant(aliases, variant).ok]
    /\ UNCHANGED <<workerVars, repoVars, cacheVars, weightVars, zoneVars, loaderVars, factoryVars,
                   assemblerVars, extractorVars, threadVars, parserVars,
                   serviceVars, matcherVars, searchVars>>

----------------------------------------------------------------------------
(* ServiceMatcher *)

\* re.sub(r"[-._]", "", s)
Punctuation == {"-", ".", "_"}
RemovePunctuation(s) == SelectSeq(s, LAMBDA c : c \notin Punctuation)

\* re.sub(r"\s+", " ", s): every run of white space becomes one blank
CollapseSpaces(s) ==
    LET kept == SelectSeq([i \in 1..Len(s) |-> <<i, s[i]>>],
                          LAMBDA p : ~IsSpace(p[2])
                                     \/ p[1] = 1 \/ ~IsSpace(s[p[1] - 1]))
    IN  [i \in 1..Len(kept) |->
            IF IsSpace(kept[i][2]) THEN " " ELSE kept[i][2]]

\* ServiceMatcher._normalize_service_name
_normalize_service_name(name) ==
    IF name = <<>> THEN <<>>
    ELSE Strip(CollapseSpaces(RemovePunctuation(Lower(name))))

\* _is_match without the comparison of the normalized aliases
_is_match_without_variants(query_normalized, service) ==
    \/ is_service_match(service, query_normalized)
    \/ query_normalized = _normalize_service_name(service.service_name)

\* ServiceMatcher._is_match
_is_match(query_normalized, service) ==
    \/ is_service_match(service, query_normalized)
    \/ query_normalized = _normalize_service_name(service.service_name)
    \/ \E i \in 1..Len(service.service_variants) :
           query_normalized =
               _normalize_service_name(service.service_variants[i])

\* ServiceMatcher.match_service: the first service of the list that matches,
\* with its place in the list
match_service(q, available_services) ==
    LET query_normalized == _normalize_service_name(q)
        hits == {i \in 1..Len(available_services) :
                     _is_match(query_normalized, available_services[i])}
    IN  IF hits = {} THEN [some |-> FALSE, index |-> 0]
        ELSE LET i == CHOOSE a \in hits : \A b \in hits : a <= b
             IN  [some |-> TRUE, index |-> i, val |-> available_services[i]]

(* Matcher runs: a list of services is built and match_service is called *)

ServiceNames ==
    { <<"a","b">>,
      <<"A","-","b">>,
      <<"a"," ","b">>,
      <<"A"," "," ","B","_">>,
      <<"b",".">> }

VariantLists ==
    { <<>>, << <<"a","b">> >>, << <<"A"," "," ","B","_">> >>,
      << <<" ","b",".">> >> }

MatchQueries == ServiceNames \cup { <<>>, <<" ","B"," ">>, <<"a","\t","b">> }

InitMatcher ==
    /\ available = <<>>
    /\ matched = [done |-> FALSE]

AddService(name, variants) ==
    /\ Len(available) < MaxServices
    /\ available' = Append(available, ShippingService(name, variants, <<>>))
    /\ matched' = [done |-> FALSE]
    /\ UNCHANGED <<workerVars, repoVars, cacheVars, aliasVars, weightVars, zoneVars, loaderVars, factoryVars, assemblerVars, extractorVars, threadVars, parserVars, serviceVars, searchVars>>

MatchService(q) ==
    /\ matched' = [done |-> TRUE, query_service |-> q,
                   out |-> match_service(q, available)]
    /\ UNCHANGED <<workerVars, repoVars, cacheVars, aliasVars, weightVars, zoneVars, loaderVars, factoryVars, assemblerVars, extractorVars, threadVars, available, parserVars, serviceVars, searchVars>>

----------------------------------------------------------------------------
(* ServiceFactory *)

FedEx2Day == <<"F","e","d","E","x"," ","2","D","a","y">>
FedExGround == <<"F","e","d","E","x"," ","G","r","o","u","n","d">>

\* ServiceFactory.SERVICE_VARIANTS.get(name, []), for the services of the
\* documents below
SERVICE_VARIANTS(name) ==
    IF name = FedEx2Day
    THEN << FedEx2Day, <<"2","D","a","y">>,
            <<"F","e","d","E","x"," ","S","e","c","o","n","d"," ","D","a","y">> >>
    ELSE IF name = FedExGround
    THEN << FedExGround, <<"G","r","o","u","n","d">> >>
    ELSE <<>>

\* the (zone, weight text, price) triples of zone_prices, in the order the
\* two nested loops of create_shipping_service visit them
RECURSIVE Triples(_)
Triples(zone_prices) ==
    IF zone_prices = <<>> THEN <<>>
    ELSE LET z == Head(zone_prices)
         IN  [i \in 1..Len(z.value) |->
                 [zone |-> z.key, weight_str |-> z.value[i].key,
                  price |-> z.value[i].value]]
             \o Triples(Tail(zone_prices))

\* the loop body of create_shipping_service: a triple whose zone, weight or
\* price is refused is skipped
RECURSIVE AddPrices(_, _)
AddPrices(table, triples) ==
    IF triples = <<>> THEN table
    ELSE LET t == Head(triples)
             weight_value == DecimalOf(t.weight_str)
             accepted == /\ Zone(t.zone).ok
                         /\ weight_value.ok
                         /\ Weight(weight_value.value).ok
                         /\ set_price(table, t.zone, weight_value.value,
                                      t.price).ok
         IN  AddPrices(IF accepted
                       THEN set_price(table, t.zone, weight_value.value,
                                      t.price).price_table
                       ELSE table,
                       Tail(triples))

\* ServiceFactory.create_shipping_service
create_shipping_service(service_data) ==
    ShippingService(service_data.service_name,
                    SERVICE_VARIANTS(service_data.service_name),
                    AddPrices(<<>>, Triples(service_data.zone_prices)))

\* ServiceFactory.create_shipping_services
create_shipping_services(service_data_list) ==
    [i \in 1..Len(service_data_list) |->
        create_shipping_service(service_data_list[i])]

----------------------------------------------------------------------------
(* TableExtractor.  A table is a list of rows, a row a list of cells, a    *)
(* cell a text or None.  A price is a number of cents: the Decimal of a    *)
(* text with at most two decimals, times 100.                              *)

\* TableExtractor._clean_text
_clean_text(text) ==
    IF text = <<>> THEN <<>> ELSE Strip(CollapseSpaces(text))

\* re.split(r'[\n\s]+', text)
RECURSIVE SplitSpaces(_)
SplitSpaces(s) ==
    LET spaces == {i \in 1..Len(s) : IsSpace(s[i])}
    IN  IF spaces = {} THEN <<s>>
        ELSE LET i == CHOOSE a \in spaces : \A b \in spaces : a <= b
             IN  <<SubSeq(s, 1, i - 1)>>
                     \o SplitSpaces(SliceFrom(s, SpacesEnd(s, i - 1)))

\* re.sub(r'(lbs?\.?|[^\d.])', '', part, flags=re.IGNORECASE)
RECURSIVE RemoveUnits(_)
RemoveUnits(part) ==
    IF part = <<>> THEN <<>>
    ELSE IF LitAt(part, 0, <<"l","b">>)
    THEN LET s == IF LitAt(part, 2, <<"s">>) THEN 3 ELSE 2
         IN  RemoveUnits(SliceFrom(part,
                                   IF LitAt(part, s, <<".">>) THEN s + 1
                                   ELSE s))
    ELSE IF IsDigit(Head(part)) \/ Head(part) = "."
    THEN <<Head(part)>> \o RemoveUnits(Tail(part))
    ELSE RemoveUnits(Tail(part))

\* float(text) of a text of digits and periods does not raise ValueError
IsFloat(text) ==
    /\ Cardinality({i \in 1..Len(text) : text[i] = "."}) <= 1
    /\ \E i \in 1..Len(text) : IsDigit(text[i])

\* the loop "for part in parts" of _extract_weights_from_cell
RECURSIVE WeightsOf(_)
WeightsOf(parts) ==
    IF parts = <<>> THEN <<>>
    ELSE (IF IsFloat(RemoveUnits(Head(parts)))
          THEN <<RemoveUnits(Head(parts))>> ELSE <<>>)
             \o WeightsOf(Tail(parts))

\* TableExtractor._extract_weights_from_cell
_extract_weights_from_cell(cell) ==
    IF ~cell.some \/ cell.val = <<>> THEN <<>>
    ELSE WeightsOf(SplitSpaces(_clean_text(cell.val)))

\* Decimal(text) of a text matched by \d+\.?\d*, in cents
Cents(text) ==
    LET d == DecimalOf(text).value
    IN  IF d.e <= 2 THEN d.m * Pow10(2 - d.e) ELSE d.m \div Pow10(d.e - 2)

\* the characters that _parse_price removes: [$\s,] and the signs of the
\* euro, the pound and the yen, which no cell of the model holds
IsPriceNoise(c) == c = "$" \/ c = "," \/ IsSpace(c)

\* TableExtractor._parse_price
_parse_price(text) ==
    LET cleaned == SelectSeq(text, LAMBDA c : ~IsPriceNoise(c))
        starts == {i \in 0..(Len(cleaned) - 1) : IsDigit(cleaned[i + 1])}
        a == CHOOSE i \in starts : \A j \in starts : i <= j
        b == DigitsEnd(cleaned, a)
        c == IF b < Len(cleaned) /\ cleaned[b + 1] = "."
             THEN DigitsEnd(cleaned, b + 1) ELSE b
    IN  IF text = <<>> \/ Strip(text) = <<"*">> \/ starts = {} THEN None
        ELSE Some(Cents(Slice(cleaned, a, c)))

\* TableExtractor._extract_price_from_cell: _clean_text leaves one line
_extract_price_from_cell(cell, weight) ==
    IF ~cell.some \/ cell.val = <<>> THEN None
    ELSE _parse_price(_clean_text(cell.val))

\* a service column: the 0-based index of the column and the service name
Column(col_idx, service_name) == [idx |-> col_idx, name |-> service_name]

\* extract_weight_prices, lines 141-147: the prices of a row in the service
\* columns, in the order of the columns, without the missing ones
RECURSIVE RowPrices(_, _, _)
RowPrices(row, service_columns, weight) ==
    IF service_columns = <<>> THEN <<>>
    ELSE LET col_idx == Head(service_columns).idx
             price == IF col_idx < Len(row)
                      THEN _extract_price_from_cell(row[col_idx + 1], weight)
                      ELSE None
         IN  (IF price.some THEN <<price.val>> ELSE <<>>)
                 \o RowPrices(row, Tail(service_columns), weight)

\* extract_weight_prices that records whatever prices a row has
AddWeight_partial(weight_prices, row, service_columns, weight) ==
    DictSet(weight_prices, weight, RowPrices(row, service_columns, weight))

\* extract_weight_prices, lines 141-151: the body of "for weight in weights"
AddWeight(weight_prices, row, service_columns, weight) ==
    IF Len(RowPrices(row, service_columns, weight)) = Len(service_columns)
    THEN DictSet(weight_prices, weight,
                 RowPrices(row, service_columns, weight))
    ELSE weight_prices

\* extract_weight_prices, line 140: the loop "for weight in weights"
RECURSIVE AddWeights(_, _, _, _)
AddWeights(weight_prices, row, service_columns, weights) ==
    IF weights = <<>> THEN weight_prices
    ELSE AddWeights(AddWeight(weight_prices, row, service_columns,
                              Head(weights)),
                    row, service_columns, Tail(weights))

\* extract_weight_prices, lines 129-137: the weights of a row, from its
\* first cell, else from its second cell
RowWeights(row) ==
    IF _extract_weights_from_cell(IF row # <<>> THEN row[1] ELSE None) = <<>>
          /\ Len(row) > 1
    THEN _extract_weights_from_cell(row[2])
    ELSE _extract_weights_from_cell(IF row # <<>> THEN row[1] ELSE None)

\* extract_weight_prices, line 126: the loop over the data rows
RECURSIVE AddRows(_, _, _)
AddRows(weight_prices, rows, service_columns) ==
    IF rows = <<>> THEN weight_prices
    ELSE AddRows(AddWeights(weight_prices, Head(rows), service_columns,
                            RowWeights(Head(rows))),
                 Tail(rows), service_columns)

\* TableExtractor.extract_weight_prices
extract_weight_prices(table, service_columns, skip_header_rows) ==
    IF Len(table) <= skip_header_rows THEN <<>>
    ELSE AddRows(<<>>, SliceFrom(table, skip_header_rows), service_columns)

(* Runs of the extractor: a table is written row by row and handed to      *)
(* extract_weight_prices with a list of service columns.                   *)

\* the rows of the tables: a header row and data rows with all prices,
\* with a price missing, with the weight in the second cell, with two
\* weights, and with a cell missing
Rows ==
    { << None, Some(<<"F","e","d","E","x"," ","2","D","a","y">>), Some(<<"F","e","d","E","x","\n","G","r","o","u","n","d">>) >>,
      << Some(<<"1"," ","l","b",".">>), Some(<<"$"," ","1","0",".","0","0">>), Some(<<"$"," ","7",".","5","0">>) >>,
      << Some(<<"1"," ","l","b",".">>), Some(<<"$"," ","1","1",".","0","0">>), Some(<<"$"," ","8",".","0","0">>) >>,
      << Some(<<"2"," ","l","b","s",".">>), Some(<<"$"," ","1","2",".","0","0">>), Some(<<"*">>) >>,
      << None, Some(<<"3">>), Some(<<"$"," ","9",".","0","0">>) >>,
      << Some(<<"4"," ","5">>), Some(<<"$"," ","2","0",".","0","0">>), Some(<<"$"," ","1","5",".","0","0">>) >>,
      << Some(<<"6"," ","l","b","s",".">>), Some(<<"$"," ","3","0",".","0","0">>) >> }

\* the lists of service columns handed to the extractor
ColumnLists ==
    { << Column(1, FedEx2Day) >>,
      << Column(1, FedEx2Day), Column(2, FedExGround) >> }

NotExtracted == [done |-> FALSE]

InitExtractor ==
    /\ grid = <<>>
    /\ extraction = NotExtracted

\* one more row of the table
AddRow(row) ==
    /\ Len(grid) < MaxRows
    /\ grid' = Append(grid, row)
    /\ extraction' = NotExtracted
    /\ UNCHANGED <<workerVars, repoVars, cacheVars, aliasVars, weightVars, zoneVars, loaderVars, factoryVars, assemblerVars, threadVars, parserVars, serviceVars, matcherVars,
                   searchVars>>

\* TableExtractor.extract_weight_prices(table, service_columns, 2)
ExtractWeightPrices(service_columns) ==
    /\ extraction' = [done |-> TRUE, table |-> grid,
                      service_columns |-> service_columns,
                      weight_prices |->
                          extract_weight_prices(grid, service_columns, 2)]
    /\ UNCHANGED <<workerVars, repoVars, cacheVars, aliasVars, weightVars, zoneVars, loaderVars, factoryVars, assemblerVars, threadVars, grid, parserVars, serviceVars, matcherVars,
                   searchVars>>

----------------------------------------------------------------------------
(* The data models of the PDF parser and the assembly of the service data *)

\* PriceTableData, with the checks of __post_init__
PriceTableData(zone, service_columns, weight_prices, page_number) ==
    IF service_columns = <<>> \/ weight_prices = <<>>
    THEN Raise("ValueError")
    ELSE IF \E k \in 1..Len(weight_prices) :
                Len(weight_prices[k].value) # Len(service_columns)
    THEN Raise("ValueError")
    ELSE [ok |-> TRUE,
          value |-> [zone |-> zone, service_columns |-> service_columns,
                     weight_prices |-> weight_prices,
                     page_number |-> page_number]]

\* ServicePriceData(service_name=service_name)
ServicePriceData(service_name) ==
    [service_name |-> service_name, zone_prices |-> <<>>]

\* ServicePriceData.add_price that keeps the price it already has
add_price_first(service_data, zone, weight, price) ==
    IF /\ DictHas(service_data.zone_prices, zone)
       /\ DictHas(DictGet(service_data.zone_prices, zone), weight)
    THEN service_data
    ELSE [service_data EXCEPT !.zone_prices =
             DictSet(service_data.zone_prices, zone,
                     DictSet(IF DictHas(service_data.zone_prices, zone)
                             THEN DictGet(service_data.zone_prices, zone)
                             ELSE <<>>,
                             weight, price))]

\* ServicePriceData.add_price
add_price(service_data, zone, weight, price) ==
    [service_data EXCEPT !.zone_prices =
        DictSet(service_data.zone_prices, zone,
                DictSet(IF DictHas(service_data.zone_prices, zone)
                        THEN DictGet(service_data.zone_prices, zone)
                        ELSE <<>>,
                        weight, price))]

\* _build_service_data, lines 247-254: the service entry is created on
\* first sight, then the price is added
AddServicePrice(service_map, service_name, zone, weight, price) ==
    DictSet(service_map, service_name,
            add_price(IF DictHas(service_map, service_name)
                      THEN DictGet(service_map, service_name)
                      ELSE ServicePriceData(service_name),
                      zone, weight, price))

\* _build_service_data, line 241: the loop over the service names, from
\* the 0-based index service_idx on
RECURSIVE AddServices(_, _, _, _, _)
AddServices(service_map, table, weight, prices, service_idx) ==
    IF service_idx >= Len(table.service_columns) THEN service_map
    ELSE AddServices(IF service_idx >= Len(prices) THEN service_map
                     ELSE AddServicePrice(service_map,
                              table.service_columns[service_idx + 1],
                              table.zone, weight, prices[service_idx + 1]),
                     table, weight, prices, service_idx + 1)

\* _build_service_data, line 239: the loop over weight_prices.items()
RECURSIVE AddWeightRows(_, _, _)
AddWeightRows(service_map, table, items) ==
    IF items = <<>> THEN service_map
    ELSE AddWeightRows(AddServices(service_map, table, Head(items).key,
                                   Head(items).value, 0),
                       table, Tail(items))

\* _build_service_data, line 234: the loop over the tables
RECURSIVE AddTables(_, _)
AddTables(service_map, tables) ==
    IF tables = <<>> THEN service_map
    ELSE AddTables(AddWeightRows(service_map, Head(tables),
                                 Head(tables).weight_prices),
                   Tail(tables))

\* PDFParser._build_service_data: extracted_data.service_data after the
\* call, which parse_file makes once, on an empty service_data
_build_service_data(tables) == AddTables(<<>>, tables)

(* Runs of the assembler: tables are added to the extracted data and the   *)
(* service data is built from them.                                        *)

TableZones == {5, 6}

\* the service names of the columns of a table
NameLists ==
    { << FedEx2Day >>, << FedEx2Day, FedExGround >>,
      << FedExGround, FedEx2Day >> }

\* the weight_prices of a table: with one and with two prices per weight,
\* weights written as "1", "1.0" and "2"
WeightPrices ==
    { << Entry(<<"1">>, <<1000>>) >>,
      << Entry(<<"1">>, <<1100>>), Entry(<<"2">>, <<1200>>) >>,
      << Entry(<<"1">>, <<1000, 750>>) >>,
      << Entry(<<"1",".","0">>, <<1300, 800>>),
         Entry(<<"2">>, <<1200, 900>>) >> }

NotBuilt == [done |-> FALSE]

InitAssembler ==
    /\ price_tables = <<>>
    /\ assembled = NotBuilt

\* PriceTableData(...) and result.add_price_table(table): a table that
\* __post_init__ refuses is not added
AddPriceTable(zone, service_columns, weight_prices) ==
    /\ Len(price_tables) < MaxTables
    /\ LET table == PriceTableData(zone, service_columns, weight_prices,
                                   Len(price_tables) + 1)
       IN  price_tables' = IF table.ok
                           THEN Append(price_tables, table.value)
                           ELSE price_tables
    /\ assembled' = NotBuilt
    /\ UNCHANGED <<workerVars, repoVars, cacheVars, aliasVars, weightVars, zoneVars, loaderVars, factoryVars, extractorVars, threadVars, parserVars, serviceVars,
                   matcherVars, searchVars>>

\* PDFParser._build_service_data(result)
BuildServiceData ==
    /\ assembled' = [done |-> TRUE, tables |-> price_tables,
                     service_data |-> _build_service_data(price_tables)]
    /\ UNCHANGED <<workerVars, repoVars, cacheVars, aliasVars, weightVars, zoneVars, loaderVars, factoryVars, extractorVars, threadVars, price_tables, parserVars,
                   serviceVars, matcherVars, searchVars>>

----------------------------------------------------------------------------
(* The service names of the headers, and PDFParser.  The patterns are      *)
(* searched in texts that _clean_text has cleaned, where white space is    *)
(* single blanks, so that \s+ of a pattern stands for one blank.           *)

FedExFirstOvernight == <<"F","e","d","E","x"," ","F","i","r","s","t"," ","O","v","e","r","n","i","g","h","t">>
FedExPriorityOvernight == <<"F","e","d","E","x"," ","P","r","i","o","r","i","t","y"," ","O","v","e","r","n","i","g","h","t">>
FedExStandardOvernight == <<"F","e","d","E","x"," ","S","t","a","n","d","a","r","d"," ","O","v","e","r","n","i","g","h","t">>
FedEx2DayAM == <<"F","e","d","E","x"," ","2","D","a","y"," ","A",".","M",".">>
FedExExpressSaver == <<"F","e","d","E","x"," ","E","x","p","r","e","s","s"," ","S","a","v","e","r">>

\* the offsets of text at which a literal of a pattern compiled with
\* re.IGNORECASE matches
Finds(text, lit) == {i \in 0..Len(text) : LitAt(text, i, lit)}

\* TableExtractor.SERVICE_PATTERNS, each pattern by the literals that a
\* match of it contains: A\.?M\.? is "am" or "a.m"
SERVICE_PATTERNS ==
    << { <<"f","e","d","e","x"," ","f","i","r","s","t"," ","o","v","e","r","n","i","g","h","t">> },
       { <<"f","e","d","e","x"," ","p","r","i","o","r","i","t","y"," ","o","v","e","r","n","i","g","h","t">> },
       { <<"f","e","d","e","x"," ","s","t","a","n","d","a","r","d"," ","o","v","e","r","n","i","g","h","t">> },
       { <<"f","e","d","e","x"," ","2","d","a","y"," ","a","m">>,
         <<"f","e","d","e","x"," ","2","d","a","y"," ","a",".","m">> },
       { <<"f","e","d","e","x"," ","2","d","a","y">> },
       { <<"f","e","d","e","x"," ","e","x","p","r","e","s","s"," ","s","a","v","e","r">> },
       { <<"f","e","d","e","x"," ","g","r","o","u","n","d">> } >>

\* some pattern of service_patterns is found in the text
IsServiceCell(cell_text) ==
    \E p \in 1..Len(SERVICE_PATTERNS) :
        \E lit \in SERVICE_PATTERNS[p] : Finds(cell_text, lit) # {}

\* 2Day(?!\s+A): "2day" that white space and an "a" do not follow
Finds2Day(text) ==
    {i \in Finds(text, <<"2","d","a","y">>) :
        ~(/\ SpacesEnd(text, i + 4) > i + 4
          /\ LitAt(text, SpacesEnd(text, i + 4), <<"a">>))}

\* _normalize_service_name, lines 181-199: the first pattern of name_map
\* that is found in the cleaned text gives the name
NameOf(text) ==
    IF Finds(text, <<"f","i","r","s","t"," ","o","v","e","r","n","i","g","h","t">>) # {}
    THEN Some(FedExFirstOvernight)
    ELSE IF Finds(text, <<"p","r","i","o","r","i","t","y"," ","o","v","e","r","n","i","g","h","t">>) # {}
    THEN Some(FedExPriorityOvernight)
    ELSE IF Finds(text, <<"s","t","a","n","d","a","r","d"," ","o","v","e","r","n","i","g","h","t">>) # {}
    THEN Some(FedExStandardOvernight)
    ELSE IF Finds(text, <<"2","d","a","y"," ","a","m">>) # {}
            \/ Finds(text, <<"2","d","a","y"," ","a",".","m">>) # {}
    THEN Some(FedEx2DayAM)
    ELSE IF Finds2Day(text) # {} THEN Some(FedEx2Day)
    ELSE IF Finds(text, <<"e","x","p","r","e","s","s"," ","s","a","v","e","r">>) # {}
    THEN Some(FedExExpressSaver)
    ELSE IF Finds(text, <<"g","r","o","u","n","d">>) # {} THEN Some(FedExGround)
    ELSE None

\* TableExtractor._normalize_service_name
HeaderServiceName(raw) == NameOf(_clean_text(raw))

\* extract_service_columns, lines 84-95: the service name that a header
\* cell gives, if any
CellService(cell) ==
    IF ~cell.some \/ ~IsServiceCell(_clean_text(cell.val)) THEN None
    ELSE HeaderServiceName(_clean_text(cell.val))

\* the header rows that give a service name in the column col_idx
NamingRows(header_rows, col_idx) ==
    {r \in 1..Len(header_rows) :
        /\ col_idx < Len(header_rows[r])
        /\ CellService(header_rows[r][col_idx + 1]).some}

\* extract_service_columns, from the column col_idx on: a column has the
\* name that the first header row gives it, and the columns are sorted
RECURSIVE ColumnsFrom(_, _, _)
ColumnsFrom(header_rows, col_idx, width) ==
    IF col_idx >= width THEN <<>>
    ELSE (IF NamingRows(header_rows, col_idx) = {} THEN <<>>
          ELSE << Column(col_idx,
                     CellService(header_rows[
                         CHOOSE r \in NamingRows(header_rows, col_idx) :
                             \A q \in NamingRows(header_rows, col_idx) :
                                 r <= q][col_idx + 1]).val) >>)
             \o ColumnsFrom(header_rows, col_idx + 1, width)

\* the largest number of cells of a row
RECURSIVE Width(_)
Width(rows) ==
    IF rows = <<>> THEN 0 ELSE Max(Len(Head(rows)), Width(Tail(rows)))

\* TableExtractor.extract_service_columns
extract_service_columns(header_rows) ==
    ColumnsFrom(header_rows, 0, Width(header_rows))

\* extract_zone_from_text: the offsets at which r'Zone\s+(\d+)' matches,
\* re.IGNORECASE; re.search takes the leftmost
ZoneMatches(text) ==
    {i \in Finds(text, <<"z","o","n","e">>) :
        /\ SpacesEnd(text, i + 4) > i + 4
        /\ DigitsEnd(text, SpacesEnd(text, i + 4)) > SpacesEnd(text, i + 4)}

\* int(match.group(1)) of the match at offset i
ZoneAt(text, i) ==
    ToInt(Slice(text, SpacesEnd(text, i + 4),
                DigitsEnd(text, SpacesEnd(text, i + 4))))

\* TableExtractor.extract_zone_from_text
extract_zone_from_text(text) ==
    IF ZoneMatches(text) = {} THEN None
    ELSE Some(ZoneAt(text, CHOOSE a \in ZoneMatches(text) :
                               \A b \in ZoneMatches(text) : a <= b))

\* TableExtractor.validate_table_structure
validate_table_structure(table) ==
    /\ Len(table) >= 3
    /\ Cardinality({Len(table[r]) : r \in 1..Len(table)}) <= 2

\* _extract_tables_from_page, lines 198-206: the PriceTableData that is
\* appended, or nothing when its constructor raises
TableMade(table_data) ==
    IF ~table_data.ok THEN <<>> ELSE <<table_data.value>>

\* _extract_tables_from_page, lines 192-204
TableOfPrices(zone, page_num, service_columns, weight_prices) ==
    IF weight_prices = <<>> THEN <<>>
    ELSE TableMade(PriceTableData(zone,
                       [c \in 1..Len(service_columns) |->
                           service_columns[c].name],
                       weight_prices, page_num))

\* _extract_tables_from_page, lines 178-190
TableOfColumns(table, zone, page_num, service_columns) ==
    IF service_columns = <<>> THEN <<>>
    ELSE TableOfPrices(zone, page_num, service_columns,
                       extract_weight_prices(table, service_columns, 2))

\* _extract_tables_from_page, lines 165-217: the PriceTableData of a table,
\* or nothing for a table that is skipped
TableData(table, zone, page_num) ==
    IF ~validate_table_structure(table) THEN <<>>
    ELSE TableOfColumns(table, zone, page_num,
                        extract_service_columns(SubSeq(table, 1, 2)))

\* _extract_tables_from_page, line 164: the loop over the tables
RECURSIVE TablesData(_, _, _)
TablesData(tables, zone, page_num) ==
    IF tables = <<>> THEN <<>>
    ELSE TableData(Head(tables), zone, page_num)
             \o TablesData(Tail(tables), zone, page_num)

\* PDFParser._extract_tables_from_page; a page is its text and its tables
_extract_tables_from_page(page, page_num) ==
    IF ~extract_zone_from_text(page.text).some THEN <<>>
    ELSE TablesData(page.tables, extract_zone_from_text(page.text).val,
                    page_num)

\* parse_file, line 75: the loop over the pages, from page page_num on
RECURSIVE PagesData(_, _)
PagesData(pages, page_num) ==
    IF page_num > Len(pages) THEN <<>>
    ELSE _extract_tables_from_page(pages[page_num], page_num)
             \o PagesData(pages, page_num + 1)

\* PDFParser.parse_file on a document that pdfplumber opens: the price
\* tables of the pages and the service data built from them
parse_file(pages) ==
    [price_tables |-> PagesData(pages, 1),
     service_data |-> _build_service_data(PagesData(pages, 1))]

\* the documents of the directory that the loader reads: a rate sheet of
\* zone 5 with two services, and a document without the word "Zone"
RateTable ==
    << << None,
          Some(<<"F","e","d","E","x"," ","2","D","a","y">>),
          Some(<<"F","e","d","E","x","\n","G","r","o","u","n","d">>) >>,
       << Some(<<"l","b","s",".">>),
          None,
          None >>,
       << Some(<<"1"," ","l","b",".">>),
          Some(<<"$"," ","1","0",".","0","0">>),
          Some(<<"$"," ","7",".","5","0">>) >>,
       << Some(<<"2"," ","l","b","s",".">>),
          Some(<<"$"," ","1","2",".","0","0">>),
          Some(<<"*">>) >> >>

PagesOf(path) ==
    IF path = "rates.pdf"
    THEN << [text |-> <<"R","a","t","e","s"," ","Z","o","n","e"," ","5">>, tables |-> << RateTable >>] >>
    ELSE << [text |-> <<"T","e","r","m","s">>, tables |-> << RateTable >>] >>

----------------------------------------------------------------------------
(* Runs of the factory: prices are added to a ServicePriceData, which is   *)
(* handed to create_shipping_service.                                      *)

FactoryZones == {5, 9}
FactoryWeights == { <<"3">>, <<"3",".">>, <<"0">>, <<"x">> }
FactoryPrices == {-1, 1000, 2000}

NotCreated == [done |-> FALSE]

InitFactory ==
    /\ service_input = ServicePriceData(FedEx2Day)
    /\ created = NotCreated

\* service_data.add_price(zone, weight, price)
AddPrice(zone, weight, price) ==
    /\ Len(Triples(service_input.zone_prices)) < MaxTriples
    /\ service_input' = add_price(service_input, zone, weight, price)
    /\ created' = NotCreated
    /\ UNCHANGED <<workerVars, repoVars, cacheVars, aliasVars, weightVars, zoneVars, loaderVars, assemblerVars, extractorVars, threadVars, parserVars,
                   serviceVars, matcherVars, searchVars>>

\* ServiceFactory.create_shipping_service(service_data)
CreateShippingService ==
    /\ created' = [done |-> TRUE, service_data |-> service_input,
                   service |-> create_shipping_service(service_input)]
    /\ UNCHANGED <<workerVars, repoVars, cacheVars, aliasVars, weightVars, zoneVars, loaderVars, assemblerVars, extractorVars, threadVars, service_input,
                   parserVars, serviceVars, matcherVars, searchVars>>

\* the weights of the set_price calls on a service that the factory made
CreatedWeights == {Dec(3, 0), Dec(4, 0)}

\* the prices of those calls
CreatedPrices == {-1, 2000}

\* the number of set_price calls made on the service since the factory
\* made it
SetPricesOf(c) == IF "set_price" \in DOMAIN c THEN c.set_price.calls ELSE 0

\* service.set_price(Zone(zone), Weight(weight), price) on the service that
\* the factory made: a zone that Zone rejects raises before set_price runs
SetPriceOfCreated(zone, weight, price) ==
    /\ created.done
    /\ SetPricesOf(created) < MaxSetPrices
    /\ LET r == IF Zone(zone).ok /\ Weight(weight).ok
                THEN set_price(created.service.price_table, zone, weight,
                               price)
                ELSE [ok |-> FALSE,
                      price_table |-> created.service.price_table]
       IN  created' = [done |-> TRUE,
                       service_data |-> created.service_data,
                       service |-> [created.service EXCEPT
                                       !.price_table = r.price_table],
                       set_price |-> [zone |-> zone, price |-> price,
                                      ok |-> r.ok,
                                      calls |-> SetPricesOf(created) + 1]]
    /\ UNCHANGED <<workerVars, repoVars, cacheVars, aliasVars, weightVars, zoneVars, loaderVars, assemblerVars, extractorVars, threadVars, service_input,
                   parserVars, serviceVars, matcherVars, searchVars>>

----------------------------------------------------------------------------
(* The files and what PDFParser.parse_file extracts from them *)

Paths == {"a.pdf", "b.pdf"}

\* the files of the directory that the loader reads
DirectoryPaths == {"rates.pdf", "notes.pdf", "broken.pdf", "huge.pdf"}

\* the paths handed to the loader: none.pdf is not in the directory
LoaderPaths == DirectoryPaths \cup {"none.pdf"}

\* what is at a path when the program starts: a document that pdfplumber
\* opens ("present"), a file that pdfplumber cannot open ("corrupt"), a
\* document larger than config.max_pdf_size_mb ("large"), or nothing
\* ("missing")
KindOf(path) ==
    IF path = "broken.pdf" THEN "corrupt"
    ELSE IF path = "huge.pdf" THEN "large"
    ELSE IF path = "none.pdf" THEN "missing"
    ELSE "present"

\* PDFParser.parse_file of the documents of the directory
Extracted == [path \in DirectoryPaths |-> parse_file(PagesOf(path))]

\* extracted_data.service_data.values() of the document stored at a path
ServiceDataOf(path) ==
    IF path = "a.pdf"
    THEN << [service_name |-> FedEx2Day,
             zone_prices |-> << Entry(5, << Entry(<<"3">>, 1000) >>) >>] >>
    ELSE IF path = "b.pdf"
    THEN << [service_name |-> FedExGround,
             zone_prices |-> << Entry(5, << Entry(<<"3",".","0">>, 700) >>) >>],
            [service_name |-> FedEx2Day,
             zone_prices |-> << Entry(5, << Entry(<<"3">>, 2000) >>) >>] >>
    ELSE [i \in 1..Len(Extracted[path].service_data) |->
             Extracted[path].service_data[i].value]

----------------------------------------------------------------------------
(* PDFPriceRepository *)

\* the loop "self._services[service.service_name] = service"
RECURSIVE StoreServices(_, _)
StoreServices(stored, new) ==
    IF new = <<>> THEN stored
    ELSE StoreServices(DictSet(stored, Head(new).service_name, Head(new)),
                       Tail(new))

\* load_from_pdf that tracks the source file before it looks at the file
load_from_pdf_tracking_first(fs, stored, sources, file_path) ==
    LET tracked == IF \E i \in 1..Len(sources) : sources[i] = file_path
                   THEN sources ELSE Append(sources, file_path)
    IN  IF fs[file_path] = "missing"
        THEN [ok |-> FALSE, exc |-> "FileNotFoundError",
              services |-> stored, source_files |-> tracked]
        ELSE IF fs[file_path] = "corrupt"
        THEN [ok |-> FALSE, exc |-> "PDFParserError",
              services |-> stored, source_files |-> tracked]
        ELSE [ok |-> TRUE,
              services |->
                  StoreServices(stored,
                      create_shipping_services(ServiceDataOf(file_path))),
              source_files |-> tracked]

\* PDFPriceRepository.load_from_pdf: the repository after the call
load_from_pdf(fs, stored, sources, file_path) ==
    IF fs[file_path] = "missing"
    THEN [ok |-> FALSE, exc |-> "FileNotFoundError",
          services |-> stored, source_files |-> sources]
    ELSE IF fs[file_path] = "corrupt"
    THEN [ok |-> FALSE, exc |-> "PDFParserError",
          services |-> stored, source_files |-> sources]
    ELSE [ok |-> TRUE,
          services |->
              StoreServices(stored,
                  create_shipping_services(ServiceDataOf(file_path))),
          source_files |->
              IF \E i \in 1..Len(sources) : sources[i] = file_path
              THEN sources ELSE Append(sources, file_path)]

\* the reload loop of refresh_data: a file that fails to load is skipped
RECURSIVE Reload(_, _, _, _)
Reload(fs, stored, sources, todo) ==
    IF todo = <<>> THEN [services |-> stored, source_files |-> sources]
    ELSE LET r == load_from_pdf(fs, stored, sources, Head(todo))
         IN  Reload(fs, r.services, r.source_files, Tail(todo))

\* PDFPriceRepository.refresh_data
refresh_data(fs, sources) == Reload(fs, <<>>, <<>>, sources)

\* PDFPriceRepository.get_all_services
get_all_services(stored) == [i \in 1..Len(stored) |-> stored[i].value]

\* PDFPriceRepository.get_service_count
get_service_count(stored) == Len(stored)

(* Runs of one PDFPriceRepository over files that come and go *)

RepositoryPaths == Paths \cup {"broken.pdf"}

NoRepositoryCall == [op |-> "none"]

InitRepository == repo_call = NoRepositoryCall

\* PDFPriceRepository.load_from_pdf(path), with the repository before it
LoadFile(path) ==
    /\ LET r == load_from_pdf(files, services, source_files, path)
       IN  /\ services' = r.services
           /\ source_files' = r.source_files
           /\ repo_call' = [op |-> "load_from_pdf", file_path |-> path,
                            ok |-> r.ok, services |-> services,
                            source_files |-> source_files]
    /\ UNCHANGED <<workerVars, cacheVars, aliasVars, weightVars, zoneVars, loaderVars, factoryVars, assemblerVars, extractorVars, threadVars, files, cache, now, response, trace,
                   parserVars, serviceVars, matcherVars>>

\* PDFPriceRepository.refresh_data(), with the repository before it and
\* whether every tracked file was there to load
Refresh ==
    /\ LET r == refresh_data(files, source_files)
       IN  /\ services' = r.services
           /\ source_files' = r.source_files
           /\ repo_call' = [op |-> "refresh_data",
                            loadable |-> \A i \in 1..Len(source_files) :
                                files[source_files[i]] = "present",
                            services |-> services,
                            source_files |-> source_files]
    /\ UNCHANGED <<workerVars, cacheVars, aliasVars, weightVars, zoneVars, loaderVars, factoryVars, assemblerVars, extractorVars, threadVars, files, cache, now, response, trace,
                   parserVars, serviceVars, matcherVars>>

----------------------------------------------------------------------------
(* PriceCache *)

default_ttl == 3600

\* an entry that is still served at the time of its expiry
_is_expired_after(entry, t) == t > entry.expires_at

\* PriceCache._is_expired
_is_expired(entry, t) == t >= entry.expires_at

\* PriceCache.get: the value returned and the cache after the call
cache_get(c, key, t) ==
    IF key \notin DOMAIN c
    THEN [value |-> None, cache |-> c]
    ELSE IF _is_expired(c[key], t)
    THEN [value |-> None,
          cache |-> [k \in DOMAIN c \ {key} |-> c[k]]]
    ELSE [value |-> Some(c[key].value), cache |-> c]

\* PriceCache.set with the default time-to-live
cache_set(c, key, value, t) ==
    [k \in DOMAIN c \cup {key} |->
        IF k = key THEN [value |-> value, expires_at |-> t + default_ttl]
        ELSE c[k]]

\* PriceCache.set: ttl None stands for the default time-to-live
PriceCache_set(c, key, value, ttl, t) ==
    [k \in DOMAIN c \cup {key} |->
        IF k = key
        THEN [value |-> value,
              expires_at |-> t + (IF ttl = None THEN default_ttl ELSE ttl.val)]
        ELSE c[k]]

\* PriceCache.delete: whether the key was there and the cache after the call
PriceCache_delete(c, key) ==
    IF key \in DOMAIN c
    THEN [value |-> TRUE, cache |-> [k \in DOMAIN c \ {key} |-> c[k]]]
    ELSE [value |-> FALSE, cache |-> c]

(* Runs of one PriceCache under a clock *)

CacheKeys == {"k1", "k2"}
CacheValues == {"v1", "v2"}
CacheTtls == {None, Some(0), Some(1), Some(2)}

NoCacheCall == [op |-> "none"]

InitCache ==
    /\ cache_call = NoCacheCall
    /\ last_set = [k \in CacheKeys |-> None]

\* PriceCache.set(key, value, ttl)
SetEntry(key, value, ttl) ==
    /\ cache' = PriceCache_set(cache, key, value, ttl, now)
    /\ last_set' = [last_set EXCEPT
                       ![key] = Some([value |-> value, at |-> now,
                                      ttl |-> IF ttl = None THEN default_ttl
                                              ELSE ttl.val])]
    /\ cache_call' = [op |-> "set", key |-> key, at |-> now]
    /\ UNCHANGED <<workerVars, repoVars, aliasVars, weightVars, zoneVars, loaderVars, factoryVars, assemblerVars, extractorVars, threadVars, files, services, source_files, now, response, trace,
                   parserVars, serviceVars, matcherVars>>

\* PriceCache.get(key)
GetEntry(key) ==
    /\ LET r == cache_get(cache, key, now)
       IN  /\ cache' = r.cache
           /\ cache_call' = [op |-> "get", key |-> key, at |-> now,
                             value |-> r.value]
    /\ UNCHANGED <<workerVars, repoVars, aliasVars, weightVars, zoneVars, loaderVars, factoryVars, assemblerVars, extractorVars, threadVars, files, services, source_files, now, response, trace,
                   parserVars, serviceVars, matcherVars, last_set>>

\* PriceCache.delete(key)
DeleteEntry(key) ==
    /\ LET r == PriceCache_delete(cache, key)
       IN  /\ cache' = r.cache
           /\ cache_call' = [op |-> "delete", key |-> key, at |-> now,
                             value |-> r.value]
    /\ last_set' = [last_set EXCEPT ![key] = None]
    /\ UNCHANGED <<workerVars, repoVars, aliasVars, weightVars, zoneVars, loaderVars, factoryVars, assemblerVars, extractorVars, threadVars, files, services, source_files, now, response, trace,
                   parserVars, serviceVars, matcherVars>>

\* the clock of the cache advances
ClockTick ==
    /\ now < MaxTime
    /\ now' = now + 1
    /\ cache_call' = NoCacheCall
    /\ UNCHANGED <<workerVars, repoVars, aliasVars, weightVars, zoneVars, loaderVars, factoryVars, assemblerVars, extractorVars, threadVars, files, services, source_files, cache, response, trace,
                   parserVars, serviceVars, matcherVars, last_set>>

(* Threads that call one PriceCache.  PriceCache takes no lock: a call is *)
(* a sequence of steps, one per access to the dictionary, and the steps   *)
(* of the threads interleave.                                             *)

\* the threads that call the cache
Workers == {"w1", "w2"}

NoWork == [pc |-> "idle"]

InitWorkers == workers = [t \in Workers |-> NoWork]

\* the thread is between two calls
Free(t) == workers[t].pc \in {"idle", "returned", "raised"}

\* the call of the thread returns a value
Returns(t, value) ==
    workers' = [workers EXCEPT ![t] = [pc |-> "returned", op |-> @.op,
                                       value |-> value]]

\* an exception leaves the call of the thread
Raises(t, exc) ==
    workers' = [workers EXCEPT ![t] = [pc |-> "raised", op |-> @.op,
                                       exc |-> exc]]

\* what get and exists return for an entry that is not served
Absent(op) == IF op = "get" THEN None ELSE FALSE

\* PriceCache.set(key, "v1", ttl=1) while no thread is inside a call
StoreEntry(key) ==
    /\ \A t \in Workers : Free(t)
    /\ SetEntry(key, "v1", Some(1))

\* a thread calls PriceCache.get(key) or PriceCache.exists(key)
CallOnKey(t, op, key) ==
    /\ Free(t)
    /\ workers' = [workers EXCEPT ![t] = [pc |-> "check", op |-> op,
                                          key |-> key]]
    /\ UNCHANGED <<repoVars, cacheVars, aliasVars, weightVars, zoneVars, loaderVars, factoryVars, assemblerVars, extractorVars, threadVars, searchVars,
                   parserVars, serviceVars, matcherVars>>

\* get and exists, "if key not in self._cache"
CheckKey(t) ==
    /\ workers[t].pc = "check"
    /\ IF workers[t].key \notin DOMAIN cache
       THEN Returns(t, Absent(workers[t].op))
       ELSE workers' = [workers EXCEPT ![t].pc = "read"]
    /\ UNCHANGED <<repoVars, cacheVars, aliasVars, weightVars, zoneVars, loaderVars, factoryVars, assemblerVars, extractorVars, threadVars, searchVars,
                   parserVars, serviceVars, matcherVars>>

\* get and exists, "entry = self._cache[key]" and "self._is_expired(entry)"
ReadEntry(t) ==
    /\ workers[t].pc = "read"
    /\ IF workers[t].key \notin DOMAIN cache
       THEN Raises(t, "KeyError")
       ELSE IF _is_expired(cache[workers[t].key], now)
       THEN workers' = [workers EXCEPT ![t].pc = "delete"]
       ELSE Returns(t, IF workers[t].op = "get"
                       THEN Some(cache[workers[t].key].value) ELSE TRUE)
    /\ UNCHANGED <<repoVars, cacheVars, aliasVars, weightVars, zoneVars, loaderVars, factoryVars, assemblerVars, extractorVars, threadVars, searchVars,
                   parserVars, serviceVars, matcherVars>>

\* get and exists, "del self._cache[key]"
DeleteExpired(t) ==
    /\ workers[t].pc = "delete"
    /\ IF workers[t].key \notin DOMAIN cache
       THEN Raises(t, "KeyError") /\ UNCHANGED cache
       ELSE /\ cache' = PriceCache_delete(cache, workers[t].key).cache
            /\ Returns(t, Absent(workers[t].op))
    /\ UNCHANGED <<repoVars, cacheVars, aliasVars, weightVars, zoneVars, loaderVars, factoryVars, assemblerVars, extractorVars, threadVars, files, services, source_files, now, response, trace,
                   parserVars, serviceVars, matcherVars>>

\* a thread calls PriceCache.clear_expired(): the iterator over the items
\* of the dictionary remembers the size of the dictionary
CallClearExpired(t) ==
    /\ Free(t)
    /\ workers' = [workers EXCEPT
                      ![t] = [pc |-> "iterate", op |-> "clear_expired",
                              size |-> Cardinality(DOMAIN cache),
                              seen |-> {}, expired_keys |-> <<>>,
                              todo |-> <<>>]]
    /\ UNCHANGED <<repoVars, cacheVars, aliasVars, weightVars, zoneVars, loaderVars, factoryVars, assemblerVars, extractorVars, threadVars, searchVars,
                   parserVars, serviceVars, matcherVars>>

\* clear_expired, one turn of the comprehension: the iterator raises when
\* the dictionary changed its size, else it hands out the next item
Iterate(t) ==
    /\ workers[t].pc = "iterate"
    /\ IF Cardinality(DOMAIN cache) # workers[t].size
       THEN Raises(t, "RuntimeError")
       ELSE IF DOMAIN cache \ workers[t].seen = {}
       THEN workers' = [workers EXCEPT ![t].pc = "purge",
                                       ![t].todo = workers[t].expired_keys]
       ELSE \E key \in DOMAIN cache \ workers[t].seen :
                workers' = [workers EXCEPT
                    ![t].seen = @ \cup {key},
                    ![t].expired_keys =
                        IF _is_expired(cache[key], now)
                        THEN Append(@, key) ELSE @]
    /\ UNCHANGED <<repoVars, cacheVars, aliasVars, weightVars, zoneVars, loaderVars, factoryVars, assemblerVars, extractorVars, threadVars, searchVars,
                   parserVars, serviceVars, matcherVars>>

\* clear_expired, "for key in expired_keys: del self._cache[key]"
Purge(t) ==
    /\ workers[t].pc = "purge"
    /\ IF workers[t].todo = <<>>
       THEN Returns(t, Len(workers[t].expired_keys)) /\ UNCHANGED cache
       ELSE IF Head(workers[t].todo) \notin DOMAIN cache
       THEN Raises(t, "KeyError") /\ UNCHANGED cache
       ELSE /\ cache' = PriceCache_delete(cache, Head(workers[t].todo)).cache
            /\ workers' = [workers EXCEPT ![t].todo = Tail(@)]
    /\ UNCHANGED <<repoVars, cacheVars, aliasVars, weightVars, zoneVars, loaderVars, factoryVars, assemblerVars, extractorVars, threadVars, files, services, source_files, now, response, trace,
                   parserVars, serviceVars, matcherVars>>

----------------------------------------------------------------------------
(* PriceSearchService *)

\* SearchResponse.success_response
success_response(price, service, zone, weight) ==
    [success |-> TRUE, price |-> Some(price), service |-> Some(service),
     zone |-> Some(zone), weight |-> Some(weight), error_message |-> None]

\* SearchResponse.error_response; a message is kept as its text and the
\* value interpolated into it
error_response(text, detail) ==
    [success |-> FALSE, price |-> None, service |-> None, zone |-> None,
     weight |-> None,
     error_message |-> Some([text |-> text, detail |-> detail])]

\* DataNotLoadedException()
DataNotLoadedException ==
    [type |-> "DataNotLoadedException",
     message |-> "No price data loaded",
     details |-> "Please load PDF data before performing searches"]

\* ServiceNotAvailableException(service_name, available_services)
ServiceNotAvailableException(service_name, available_services) ==
    [type |-> "ServiceNotAvailableException",
     message |-> "Service not available",
     details |-> [service_name |-> service_name,
                  available_services |-> available_services]]

\* the AttributeError of reading an attribute that an object does not have
AttributeError(object, attribute) ==
    [type |-> "AttributeError",
     message |-> [object |-> object, attribute |-> attribute]]

\* the except clauses of search without the clause for Exception: an
\* exception of another type leaves the call
search_except_narrow(e) ==
    IF e.type \in {"DataNotLoadedException", "ServiceNotAvailableException"}
    THEN error_response(e.message, e.details)
    ELSE Raise(e)

\* search, lines 173-187: the except clauses around the body of search
search_except(e) ==
    IF e.type \in {"DataNotLoadedException", "ServiceNotAvailableException"}
    THEN error_response(e.message, e.details)
    ELSE error_response("Internal error", e.message)

\* PriceSearchService._make_cache_key
_make_cache_key(q) == <<"search:">> \o Lower(Strip(q))

GenericNames ==
    { <<"s","t","a","n","d","a","r","d">>,
      <<"d","e","f","a","u","l","t">>,
      <<"g","e","n","e","r","i","c">> }

\* the service-matching step whose fallback takes the last service
MatchedService_last(price_query, available_services) ==
    LET matched_service ==
            match_service(price_query.service_type, available_services)
    IN  IF matched_service.some THEN matched_service
        ELSE IF /\ Lower(price_query.service_type) \in GenericNames
                /\ available_services # <<>>
        THEN [some |-> TRUE, index |-> Len(available_services),
              val |-> available_services[Len(available_services)]]
        ELSE [some |-> FALSE, index |-> 0]

\* search, the service-matching step: match_service and, for a generic
\* service type that matched nothing, the first available service
MatchedService(price_query, available_services) ==
    LET matched_service ==
            match_service(price_query.service_type, available_services)
    IN  IF matched_service.some THEN matched_service
        ELSE IF /\ Lower(price_query.service_type) \in GenericNames
                /\ available_services # <<>>
        THEN [some |-> TRUE, index |-> 1, val |-> available_services[1]]
        ELSE [some |-> FALSE, index |-> 0]

\* the query texts of the search requests
SearchQueries ==
    { <<"2","D","a","y",","," ","z","5",","," ","3"," ","l","b">>,
      <<"2","D","A","Y",","," ","Z","5",","," ","3"," ","L","B">>,
      <<"z","5"," ","3","l","b">>,
      <<"A","i","r",","," ","z","5",","," ","3","l","b">>,
      <<"2","D","a","y",","," ","z","5">>,
      <<"2","D","a","y",","," ","z","6",","," ","3"," ","l","b">> }

\* the query texts of the search requests that name a zone outside 1..8,
\* and two that name zone 5
ZoneQueries ==
    { <<"z","o","n","e"," ","9","9",","," ","3","l","b">>,
      <<"2","D","a","y",","," ","z","o","n","e"," ","9","9",","," ","3","l","b">>,
      <<"2","D","a","y",","," ","z","o","n","e"," ","9","9",","," ","x">>,
      <<"2","D","a","y"," ","z","o","n","e"," ","9","9"," ","3","l","b">>,
      <<"2","D","a","y"," ","3","l","b"," ","z","0">>,
      <<"2","D","a","y"," ","z","o","n","e"," ","9","9">>,
      <<","," ","z","0",","," ","3","l","b">>,
      <<"2","D","a","y",","," ","z","5",","," ","3","l","b">>,
      <<"A","i","r"," ","z","5"," ","3","l","b">> }

\* self.query_parser.parse(request.query), evaluated once per query text
ParsedQuery == [q \in SearchQueries \cup ZoneQueries |-> parse(q)]

\* what a search call did on its way
Trace(q, use_cache, hit, parsed, matching, lookup, written) ==
    [ran |-> TRUE, query |-> q, use_cache |-> use_cache, cache_hit |-> hit,
     parsed |-> parsed, matching |-> matching, lookup |-> lookup,
     cache_write |-> written]

\* search, lines 150-163: the success response, written to the cache when
\* the request asks for the cache
SearchFound(q, use_cache, c, t, found) ==
    [response |-> found,
     cache |-> IF use_cache THEN cache_set(c, _make_cache_key(q), found, t)
               ELSE c,
     trace |-> Trace(q, use_cache, FALSE, "ok", TRUE, TRUE, use_cache)]

\* the price lookup that also writes its error response to the cache
SearchPrice_caching_errors(q, use_cache, c, t, price_query, service, price) ==
    IF ~price.ok
    THEN SearchFound(q, use_cache, c, t,
                     error_response("Price not found", price.exc.message))
    ELSE SearchFound(q, use_cache, c, t,
                     success_response(price.value, service.service_name,
                                      price_query.zone,
                                      ToFloat(price_query.weight)))

\* search, lines 136-163: the outcome of get_price on the matched service
SearchPrice(q, use_cache, c, t, price_query, service, price) ==
    IF ~price.ok
    THEN [response |-> error_response("Price not found", price.exc.message),
          cache |-> c,
          trace |-> Trace(q, use_cache, FALSE, "ok", TRUE, TRUE, FALSE)]
    ELSE SearchFound(q, use_cache, c, t,
                     success_response(price.value, service.service_name,
                                      price_query.zone,
                                      ToFloat(price_query.weight)))

\* search, lines 125-147: ServiceNotAvailable when no service was matched,
\* else the price lookup
SearchService(q, use_cache, c, t, price_query, available_services, matched_service) ==
    IF ~matched_service.some
    THEN [response |->
              search_except(ServiceNotAvailableException(
                  price_query.service_type,
                  [i \in 1..Len(available_services) |->
                      available_services[i].service_name])),
          cache |-> c,
          trace |-> Trace(q, use_cache, FALSE, "ok", TRUE, FALSE, FALSE)]
    ELSE SearchPrice(q, use_cache, c, t, price_query, matched_service.val,
                     get_price(matched_service.val.service_name,
                               matched_service.val.price_table,
                               price_query.zone, price_query.weight))

\* search, lines 106-123: DataNotLoaded when the repository returns no
\* service, else the matching
SearchServices(q, use_cache, c, t, price_query, available_services) ==
    IF available_services = <<>>
    THEN [response |-> search_except(DataNotLoadedException),
          cache |-> c,
          trace |-> Trace(q, use_cache, FALSE, "ok", FALSE, FALSE, FALSE)]
    ELSE SearchService(q, use_cache, c, t, price_query, available_services,
                       MatchedService(price_query, available_services))

\* search, lines 93-104: the outcome of the parse; the handler of a
\* rejected query reads e.reason
SearchParsed(q, use_cache, stored, c, t, parsed) ==
    IF parsed.ok
    THEN SearchServices(q, use_cache, c, t, parsed, get_all_services(stored))
    ELSE [response |->
              IF "reason" \in DOMAIN parsed.exc
              THEN error_response("Invalid query", parsed.exc.reason)
              ELSE search_except(AttributeError("InvalidQueryException",
                                                "reason")),
          cache |-> c,
          trace |-> Trace(q, use_cache, FALSE, "rejected",
                          FALSE, FALSE, FALSE)]

\* search, from the parsing of the query on: the response, the cache and
\* the trace of the call
SearchMiss(q, use_cache, stored, c, t) ==
    SearchParsed(q, use_cache, stored, c, t, ParsedQuery[q])

\* search that looks into the cache before it counts the services
search_cache_first(q, use_cache, stored, c, t) ==
    LET cached_result == cache_get(c, _make_cache_key(q), t)
    IN  IF use_cache /\ cached_result.value.some
        THEN [response |-> cached_result.value.val,
              cache |-> cached_result.cache,
              trace |-> Trace(q, use_cache, TRUE, "not run",
                              FALSE, FALSE, FALSE)]
        ELSE IF get_service_count(stored) = 0
        THEN [response |-> search_except(DataNotLoadedException),
              cache |-> c,
              trace |-> Trace(q, use_cache, FALSE, "not run",
                              FALSE, FALSE, FALSE)]
        ELSE SearchMiss(q, use_cache, stored,
                        IF use_cache THEN cached_result.cache ELSE c, t)

\* PriceSearchService.search
search(q, use_cache, stored, c, t) ==
    LET cached_result == cache_get(c, _make_cache_key(q), t)
    IN  IF get_service_count(stored) = 0
        THEN [response |-> search_except(DataNotLoadedException),
              cache |-> c,
              trace |-> Trace(q, use_cache, FALSE, "not run",
                              FALSE, FALSE, FALSE)]
        ELSE IF use_cache /\ cached_result.value.some
        THEN [response |-> cached_result.value.val,
              cache |-> cached_result.cache,
              trace |-> Trace(q, use_cache, TRUE, "not run",
                              FALSE, FALSE, FALSE)]
        ELSE SearchMiss(q, use_cache, stored,
                        IF use_cache THEN cached_result.cache ELSE c, t)

(* Runs of the search service over the repository, the cache and the files *)

NoResponse ==
    [success |-> FALSE, price |-> None, service |-> None, zone |-> None,
     weight |-> None, error_message |-> None]

NoTrace == [ran |-> FALSE]

InitSearch ==
    /\ files = [p \in Paths \cup LoaderPaths |-> KindOf(p)]
    /\ services = <<>>
    /\ source_files = <<>>
    /\ cache = <<>>
    /\ now = 0
    /\ response = NoResponse
    /\ trace = NoTrace

\* PDFPriceRepository.load_from_pdf(path)
LoadFromPdf(path) ==
    /\ LET r == load_from_pdf(files, services, source_files, path)
       IN  /\ services' = r.services
           /\ source_files' = r.source_files
    /\ response' = NoResponse
    /\ trace' = NoTrace
    /\ UNCHANGED <<workerVars, repoVars, cacheVars, aliasVars, weightVars, zoneVars, loaderVars, factoryVars, assemblerVars, extractorVars, threadVars, files, cache, now,
                   parserVars, serviceVars, matcherVars>>

\* PDFPriceRepository.refresh_data()
RefreshData ==
    /\ LET r == refresh_data(files, source_files)
       IN  /\ services' = r.services
           /\ source_files' = r.source_files
    /\ response' = NoResponse
    /\ trace' = NoTrace
    /\ UNCHANGED <<workerVars, repoVars, cacheVars, aliasVars, weightVars, zoneVars, loaderVars, factoryVars, assemblerVars, extractorVars, threadVars, files, cache, now,
                   parserVars, serviceVars, matcherVars>>

\* a file is removed from the disk
DeleteFile(path) ==
    /\ files[path] = "present"
    /\ files' = [files EXCEPT ![path] = "missing"]
    /\ response' = NoResponse
    /\ trace' = NoTrace
    /\ UNCHANGED <<workerVars, repoVars, cacheVars, aliasVars, weightVars, zoneVars, loaderVars, factoryVars, assemblerVars, extractorVars, threadVars, services, source_files, cache, now,
                   parserVars, serviceVars, matcherVars>>

\* a removed file is put back
RestoreFile(path) ==
    /\ files[path] = "missing"
    /\ files' = [files EXCEPT ![path] = "present"]
    /\ response' = NoResponse
    /\ trace' = NoTrace
    /\ UNCHANGED <<workerVars, repoVars, cacheVars, aliasVars, weightVars, zoneVars, loaderVars, factoryVars, assemblerVars, extractorVars, threadVars, services, source_files, cache, now,
                   parserVars, serviceVars, matcherVars>>

\* time passes: one time-to-live
Tick ==
    /\ now < MaxClock * default_ttl
    /\ now' = now + default_ttl
    /\ response' = NoResponse
    /\ trace' = NoTrace
    /\ UNCHANGED <<workerVars, repoVars, cacheVars, aliasVars, weightVars, zoneVars, loaderVars, factoryVars, assemblerVars, extractorVars, threadVars, files, services, source_files, cache,
                   parserVars, serviceVars, matcherVars>>

\* PriceSearchService.search(SearchRequest(query=q, use_cache=use_cache))
Search(q, use_cache) ==
    /\ LET r == search(q, use_cache, services, cache, now)
       IN  /\ response' = r.response
           /\ cache' = r.cache
           /\ trace' = r.trace
    /\ UNCHANGED <<workerVars, repoVars, cacheVars, aliasVars, weightVars, zoneVars, loaderVars, factoryVars, assemblerVars, extractorVars, threadVars, files, services, source_files, now,
                   parserVars, serviceVars, matcherVars>>

----------------------------------------------------------------------------
(* Concurrent searches.  The threads share the repository and the cache;   *)
(* PriceCache takes no lock, so a search is a sequence of steps, one per   *)
(* access to the shared dictionaries, and the steps of the threads         *)
(* interleave.                                                             *)

Threads == {"t1", "t2"}

\* the query texts of the concurrent requests: one that finds a price and
\* one that the parser rejects
ConcurrentQueries ==
    { <<"2","D","a","y",","," ","z","5",","," ","3"," ","l","b">>,
      <<"2","D","a","y",","," ","z","5">> }

\* a thread outside search
Idle ==
    [pc |-> "idle", query |-> <<>>, use_cache |-> FALSE,
     entry |-> None, out |-> None]

InitThreads == calls = [t \in Threads |-> Idle]

\* the thread moves to another place of search
Goto(t, pc) == calls' = [calls EXCEPT ![t].pc = pc]

\* the thread leaves search with a response, or with an exception that no
\* except clause caught
Leave(t, out) ==
    calls' = [calls EXCEPT ![t].out = Some(out),
                           ![t].pc = IF "success" \in DOMAIN out
                                     THEN "returned" ELSE "raised"]

\* a thread calls search(SearchRequest(query=q, use_cache=use_cache))
Call(t, q, use_cache) ==
    /\ calls[t].pc = "idle"
    /\ calls' = [calls EXCEPT ![t] = [Idle EXCEPT !.pc = "count",
                                                  !.query = q,
                                                  !.use_cache = use_cache]]
    /\ UNCHANGED <<workerVars, repoVars, cacheVars, aliasVars, weightVars, zoneVars, loaderVars, factoryVars, assemblerVars, extractorVars, parserVars, serviceVars, matcherVars, searchVars>>

\* search, lines 81-85: the count of the services, then the cache or the
\* parser
CountServices(t) ==
    /\ calls[t].pc = "count"
    /\ IF get_service_count(services) = 0
       THEN Leave(t, search_except(DataNotLoadedException))
       ELSE Goto(t, IF calls[t].use_cache THEN "contains" ELSE "body")
    /\ UNCHANGED <<workerVars, repoVars, cacheVars, aliasVars, weightVars, zoneVars, loaderVars, factoryVars, assemblerVars, extractorVars, parserVars, serviceVars, matcherVars, searchVars>>

\* PriceCache.get, "if key not in self._cache: return None"
CacheContains(t) ==
    /\ calls[t].pc = "contains"
    /\ Goto(t, IF _make_cache_key(calls[t].query) \in DOMAIN cache
               THEN "read" ELSE "body")
    /\ UNCHANGED <<workerVars, repoVars, cacheVars, aliasVars, weightVars, zoneVars, loaderVars, factoryVars, assemblerVars, extractorVars, parserVars, serviceVars, matcherVars, searchVars>>

\* PriceCache.get, "entry = self._cache[key]": the KeyError of a key that
\* another thread deleted is caught by _check_cache, which returns None
CacheRead(t) ==
    /\ calls[t].pc = "read"
    /\ LET key == _make_cache_key(calls[t].query)
       IN  IF key \in DOMAIN cache
           THEN calls' = [calls EXCEPT ![t].entry = Some(cache[key]),
                                       ![t].pc = "expired"]
           ELSE Goto(t, "body")
    /\ UNCHANGED <<workerVars, repoVars, cacheVars, aliasVars, weightVars, zoneVars, loaderVars, factoryVars, assemblerVars, extractorVars, parserVars, serviceVars, matcherVars, searchVars>>

\* PriceCache.get, "if self._is_expired(entry)": the value of a live entry
\* is returned by search, lines 86-92
CacheExpired(t) ==
    /\ calls[t].pc = "expired"
    /\ IF _is_expired(calls[t].entry.val, now)
       THEN Goto(t, "delete")
       ELSE Leave(t, calls[t].entry.val.value)
    /\ UNCHANGED <<workerVars, repoVars, cacheVars, aliasVars, weightVars, zoneVars, loaderVars, factoryVars, assemblerVars, extractorVars, parserVars, serviceVars, matcherVars, searchVars>>

\* PriceCache.get, "del self._cache[key]": the KeyError of a key that
\* another thread deleted is caught by _check_cache, which returns None
CacheDelete(t) ==
    /\ calls[t].pc = "delete"
    /\ LET key == _make_cache_key(calls[t].query)
       IN  cache' = [k \in DOMAIN cache \ {key} |-> cache[k]]
    /\ Goto(t, "body")
    /\ UNCHANGED <<workerVars, repoVars, cacheVars, aliasVars, weightVars, zoneVars, loaderVars, factoryVars, assemblerVars, extractorVars, files, services, source_files, now, response, trace,
                   parserVars, serviceVars, matcherVars>>

\* the contents of the repository after loads of the files, in every
\* order: S and what one more load_from_pdf makes of a member of S, up to
\* the set that no load leaves
RECURSIVE Repositories(_)
Repositories(S) ==
    LET T == S \cup
             { load_from_pdf([p \in Paths |-> "present"], s, <<>>,
                             path).services : s \in S, path \in Paths }
    IN  IF T = S THEN S ELSE Repositories(T)

\* search, lines 93-159, evaluated once per query text and content of the
\* repository: the steps between the cache lookup and the cache write read
\* neither the cache nor the clock
BodyOutcome ==
    [q \in ConcurrentQueries |->
        [stored \in Repositories({<<>>}) |->
            SearchMiss(q, FALSE, stored, <<>>, 0).response]]

\* search, lines 93-159: the parse, the matching and the price lookup
SearchBody(t) ==
    /\ calls[t].pc = "body"
    /\ LET r == [response |-> BodyOutcome[calls[t].query][services]]
       IN  IF /\ calls[t].use_cache
              /\ "success" \in DOMAIN r.response /\ r.response.success
           THEN calls' = [calls EXCEPT ![t].out = Some(r.response),
                                       ![t].pc = "set"]
           ELSE Leave(t, r.response)
    /\ UNCHANGED <<workerVars, repoVars, cacheVars, aliasVars, weightVars, zoneVars, loaderVars, factoryVars, assemblerVars, extractorVars, parserVars, serviceVars, matcherVars, searchVars>>

\* search, lines 161-171: _cache_result, then the response is returned
CacheSet(t) ==
    /\ calls[t].pc = "set"
    /\ cache' = cache_set(cache, _make_cache_key(calls[t].query),
                          calls[t].out.val, now)
    /\ Goto(t, "returned")
    /\ UNCHANGED <<workerVars, repoVars, cacheVars, aliasVars, weightVars, zoneVars, loaderVars, factoryVars, assemblerVars, extractorVars, files, services, source_files, now, response, trace,
                   parserVars, serviceVars, matcherVars>>

\* the caller takes the outcome of the call
Return(t) ==
    /\ calls[t].pc \in {"returned", "raised"}
    /\ calls' = [calls EXCEPT ![t] = Idle]
    /\ UNCHANGED <<workerVars, repoVars, cacheVars, aliasVars, weightVars, zoneVars, loaderVars, factoryVars, assemblerVars, extractorVars, parserVars, serviceVars, matcherVars, searchVars>>

\* the next step of the search call of a thread
Step(t) ==
    \/ CountServices(t)
    \/ CacheContains(t)
    \/ CacheRead(t)
    \/ CacheExpired(t)
    \/ CacheDelete(t)
    \/ SearchBody(t)
    \/ CacheSet(t)

----------------------------------------------------------------------------
(* PDFLoaderService and LoadDataUseCase.  The state that a loading call   *)
(* reads and writes is the repository and _loaded_pdfs.  The directory    *)
(* exists, and every path of the model names a regular file or nothing,    *)
(* with the suffix .pdf.                                                   *)

PDFLoadException(file_path, reason) ==
    [type |-> "PDFLoadException", file_path |-> file_path, reason |-> reason]

\* the directory handed to the loader
DirectoryName == "pdfs"

Loader(stored, sources, loaded) ==
    [services |-> stored, source_files |-> sources, loaded_pdfs |-> loaded]

\* _load_single_pdf, lines 183 to 193: the outcome r of
\* repository.load_from_pdf is recorded or becomes a PDFLoadException
LoadChecked(st, pdf_path, r) ==
    IF r.ok
    THEN [ok |-> TRUE, value |-> None,
          state |-> Loader(r.services, r.source_files,
                           Append(st.loaded_pdfs, pdf_path))]
    ELSE [ok |-> FALSE,
          exc |-> PDFLoadException(pdf_path,
                      IF r.exc = "FileNotFoundError" THEN <<"File not found">>
                      ELSE <<"Failed to parse PDF", r.exc>>),
          state |-> Loader(r.services, r.source_files, st.loaded_pdfs)]

\* PDFLoaderService._load_single_pdf
_load_single_pdf(fs, st, pdf_path) ==
    IF fs[pdf_path] = "missing"
    THEN [ok |-> FALSE, state |-> st,
          exc |-> PDFLoadException(pdf_path, <<"File does not exist">>)]
    ELSE IF fs[pdf_path] = "large"
    THEN [ok |-> FALSE, state |-> st,
          exc |-> PDFLoadException(pdf_path, <<"File size exceeds maximum">>)]
    ELSE LoadChecked(st, pdf_path,
             load_from_pdf(fs, st.services, st.source_files, pdf_path))

\* PDFLoaderService.load_pdf: a PDFLoadException is raised again, and
\* _load_single_pdf raises nothing else
load_pdf(fs, st, pdf_path) == _load_single_pdf(fs, st, pdf_path)

\* load_pdfs_from_directory, lines 84 to 91: the loop over pdf_files
RECURSIVE LoadEach(_, _, _, _, _)
LoadEach(fs, st, pdf_files, loaded_count, errors) ==
    IF pdf_files = <<>>
    THEN [state |-> st, loaded_count |-> loaded_count, errors |-> errors]
    ELSE IF _load_single_pdf(fs, st, Head(pdf_files)).ok
    THEN LoadEach(fs, _load_single_pdf(fs, st, Head(pdf_files)).state,
                  Tail(pdf_files), loaded_count + 1, errors)
    ELSE LoadEach(fs, _load_single_pdf(fs, st, Head(pdf_files)).state,
                  Tail(pdf_files), loaded_count,
                  Append(errors,
                         [name |-> Head(pdf_files),
                          error |-> _load_single_pdf(fs, st,
                                        Head(pdf_files)).exc]))

\* load_pdfs_from_directory, lines 95 to 102: l is what the loop leaves
DirectoryOutcome_any(l) ==
    IF l.errors # <<>>
    THEN [ok |-> FALSE, state |-> l.state,
          exc |-> PDFLoadException(DirectoryName,
                      <<"All PDF loads failed",
                        SubSeq(l.errors, 1, Min(3, Len(l.errors)))>>)]
    ELSE [ok |-> TRUE, state |-> l.state, value |-> l.loaded_count]

DirectoryOutcome(l) ==
    IF l.loaded_count = 0 /\ l.errors # <<>>
    THEN [ok |-> FALSE, state |-> l.state,
          exc |-> PDFLoadException(DirectoryName,
                      <<"All PDF loads failed",
                        SubSeq(l.errors, 1, Min(3, Len(l.errors)))>>)]
    ELSE [ok |-> TRUE, state |-> l.state, value |-> l.loaded_count]

\* PDFLoaderService.load_pdfs_from_directory, pdf_files being the list
\* that glob("*.pdf") gives
load_pdfs_from_directory(fs, st, pdf_files) ==
    IF pdf_files = <<>>
    THEN [ok |-> TRUE, state |-> st, value |-> 0]
    ELSE DirectoryOutcome(LoadEach(fs, st, pdf_files, 0, <<>>))

\* execute_from_directory, lines 109 to 122: the loop over pdf_files
RECURSIVE ExecuteEach(_, _, _, _, _)
ExecuteEach(fs, st, pdf_files, loaded_files, failed_files) ==
    IF pdf_files = <<>>
    THEN [state |-> st, loaded_files |-> loaded_files,
          failed_files |-> failed_files]
    ELSE IF load_pdf(fs, st, Head(pdf_files)).ok
    THEN ExecuteEach(fs, load_pdf(fs, st, Head(pdf_files)).state,
                     Tail(pdf_files),
                     Append(loaded_files, Head(pdf_files)), failed_files)
    ELSE ExecuteEach(fs, load_pdf(fs, st, Head(pdf_files)).state,
                     Tail(pdf_files), loaded_files,
                     Append(failed_files,
                            [file |-> Head(pdf_files),
                             error |-> load_pdf(fs, st,
                                           Head(pdf_files)).exc]))

\* execute_from_directory, lines 125 to 141: the result dictionary
ExecuteResult(pdf_files, l) ==
    [ok |-> TRUE, state |-> l.state,
     value |-> [success |-> Len(l.loaded_files) > 0,
                loaded_files |-> l.loaded_files,
                total_files |-> Len(pdf_files),
                failed_files |-> l.failed_files,
                loaded_count |-> Len(l.loaded_files),
                failed_count |-> Len(l.failed_files)]]

\* LoadDataUseCase.execute_from_directory
execute_from_directory(fs, st, pdf_files) ==
    IF Len(pdf_files) = 0
    THEN [ok |-> TRUE, state |-> st,
          value |-> [success |-> TRUE, loaded_files |-> <<>>,
                     total_files |-> 0, failed_files |-> <<>>,
                     message |-> "No PDF files found in directory"]]
    ELSE ExecuteResult(pdf_files, ExecuteEach(fs, st, pdf_files, <<>>, <<>>))

----------------------------------------------------------------------------
(* Runs of the loader: files appear in the directory, and single files or  *)
(* the directory are loaded through the loader or the use case.            *)

NotCalled == [op |-> "none"]

InitLoader ==
    /\ directory = <<>>
    /\ loaded_pdfs = <<>>
    /\ load_call = NotCalled

\* the outcome r of a loading call is kept and its writes are made
Loaded(op, pdf_files, r) ==
    /\ services' = r.state.services
    /\ source_files' = r.state.source_files
    /\ loaded_pdfs' = r.state.loaded_pdfs
    /\ load_call' = IF r.ok
                    THEN [op |-> op, pdf_files |-> pdf_files, ok |-> TRUE,
                          value |-> r.value]
                    ELSE [op |-> op, pdf_files |-> pdf_files, ok |-> FALSE,
                          exc |-> r.exc]

\* a file is written to the directory
PutFile(path) ==
    /\ Len(directory) < MaxFiles
    /\ \A i \in 1..Len(directory) : directory[i] # path
    /\ directory' = Append(directory, path)
    /\ UNCHANGED <<workerVars, repoVars, cacheVars, aliasVars, weightVars, zoneVars, loaded_pdfs, load_call, searchVars, factoryVars,
                   assemblerVars, extractorVars, threadVars, parserVars,
                   serviceVars, matcherVars>>

\* PDFLoaderService.load_pdf(pdf_path)
LoadPdf(pdf_path) ==
    /\ Len(loaded_pdfs) < MaxLoads
    /\ Loaded("load_pdf", <<pdf_path>>,
              load_pdf(files, Loader(services, source_files, loaded_pdfs),
                       pdf_path))
    /\ UNCHANGED <<workerVars, repoVars, cacheVars, aliasVars, weightVars, zoneVars, directory, files, cache, now, response, trace,
                   factoryVars, assemblerVars, extractorVars, threadVars,
                   parserVars, serviceVars, matcherVars>>

\* PDFLoaderService.load_pdfs_from_directory(directory)
LoadPdfsFromDirectory ==
    /\ Len(loaded_pdfs) < MaxLoads
    /\ Loaded("load_pdfs_from_directory", directory,
              load_pdfs_from_directory(files,
                  Loader(services, source_files, loaded_pdfs), directory))
    /\ UNCHANGED <<workerVars, repoVars, cacheVars, aliasVars, weightVars, zoneVars, directory, files, cache, now, response, trace,
                   factoryVars, assemblerVars, extractorVars, threadVars,
                   parserVars, serviceVars, matcherVars>>

\* LoadDataUseCase.execute_from_directory(directory)
ExecuteFromDirectory ==
    /\ Len(loaded_pdfs) < MaxLoads
    /\ Loaded("execute_from_directory", directory,
              execute_from_directory(files,
                  Loader(services, source_files, loaded_pdfs), directory))
    /\ UNCHANGED <<workerVars, repoVars, cacheVars, aliasVars, weightVars, zoneVars, directory, files, cache, now, response, trace,
                   factoryVars, assemblerVars, extractorVars, threadVars,
                   parserVars, serviceVars, matcherVars>>

----------------------------------------------------------------------------
(* Specifications *)

Init ==
    /\ InitParser /\ InitService /\ InitMatcher /\ InitSearch /\ InitThreads
    /\ InitExtractor /\ InitAssembler /\ InitFactory /\ InitLoader
    /\ InitZone /\ InitWeight /\ InitAliases /\ InitCache
    /\ InitRepository /\ InitWorkers

\* the search service with its repository, cache and files
Next ==
    \/ \E path \in Paths : LoadFromPdf(path)
    \/ RefreshData
    \/ \E path \in Paths : DeleteFile(path)
    \/ \E path \in Paths : RestoreFile(path)
    \/ Tick
    \/ \E q \in SearchQueries, use_cache \in BOOLEAN : Search(q, use_cache)

Spec == Init /\ [][Next]_vars

\* the parser on space-separated queries
NextSpace ==
    \/ \E w \in Words : TypeWord(w)
    \/ ParseQuery

SpecSpace == Init /\ [][NextSpace]_vars

\* the parser on comma-separated queries
NextComma ==
    \/ \E p \in Parts : TypePart(p)
    \/ ParseQuery

SpecComma == Init /\ [][NextComma]_vars

\* one ShippingService
NextService ==
    \/ \E z \in ZoneArgs, w \in WeightArgs, p \in PriceArgs : SetPrice(z, w, p)
    \/ \E z \in ZoneArgs, w \in WeightArgs : GetPrice(z, w)

SpecService == Init /\ [][NextService]_vars

\* the service matcher
NextMatcher ==
    \/ \E name \in ServiceNames, variants \in VariantLists :
           AddService(name, variants)
    \/ \E q \in MatchQueries : MatchService(q)

SpecMatcher == Init /\ [][NextMatcher]_vars

\* searches of queries with zone texts, over loaded and deleted files
NextZone ==
    \/ \E path \in Paths : LoadFromPdf(path)
    \/ \E path \in Paths : DeleteFile(path)
    \/ \E q \in ZoneQueries, use_cache \in BOOLEAN : Search(q, use_cache)

SpecZone == Init /\ [][NextZone]_vars

\* the table extractor
NextExtractor ==
    \/ \E row \in Rows : AddRow(row)
    \/ \E service_columns \in ColumnLists :
           ExtractWeightPrices(service_columns)

SpecExtractor == Init /\ [][NextExtractor]_vars

\* the assembler of the service data
NextAssembler ==
    \/ \E zone \in TableZones, service_columns \in NameLists,
          weight_prices \in WeightPrices :
           AddPriceTable(zone, service_columns, weight_prices)
    \/ BuildServiceData

SpecAssembler == Init /\ [][NextAssembler]_vars

\* the service factory
NextFactory ==
    \/ \E zone \in FactoryZones, weight \in FactoryWeights,
          price \in FactoryPrices : AddPrice(zone, weight, price)
    \/ CreateShippingService

SpecFactory == Init /\ [][NextFactory]_vars

\* the factory and set_price calls on the service it made
NextCreated ==
    \/ \E zone \in FactoryZones, weight \in FactoryWeights,
          price \in FactoryPrices : AddPrice(zone, weight, price)
    \/ CreateShippingService
    \/ \E zone \in FactoryZones, weight \in CreatedWeights,
          price \in CreatedPrices : SetPriceOfCreated(zone, weight, price)

SpecCreated == Init /\ [][NextCreated]_vars

\* Zone.parse and the constructor of Zone
NextZoneParse ==
    \/ \E part \in ZoneParts : TypeZonePart(part)
    \/ ZoneParse
    \/ \E value \in ZoneNumbers : ZoneInit(value)

SpecZoneParse == Init /\ [][NextZoneParse]_vars

\* one PDFPriceRepository over files that come and go
NextRepository ==
    \/ \E path \in RepositoryPaths : LoadFile(path)
    \/ Refresh
    \/ \E path \in Paths : DeleteFile(path)
    \/ \E path \in Paths : RestoreFile(path)

SpecRepository == Init /\ [][NextRepository]_vars

\* threads on one PriceCache whose entries live for one second
NextCacheThreads ==
    \/ \E key \in CacheKeys : StoreEntry(key)
    \/ ClockTick
    \/ \E t \in Workers, op \in {"get", "exists"}, key \in CacheKeys :
           CallOnKey(t, op, key)
    \/ \E t \in Workers : CheckKey(t)
    \/ \E t \in Workers : ReadEntry(t)
    \/ \E t \in Workers : DeleteExpired(t)
    \/ \E t \in Workers : CallClearExpired(t)
    \/ \E t \in Workers : Iterate(t)
    \/ \E t \in Workers : Purge(t)

SpecCacheThreads == Init /\ [][NextCacheThreads]_vars

\* one PriceCache under a clock
NextCache ==
    \/ \E key \in CacheKeys, value \in CacheValues, ttl \in CacheTtls :
           SetEntry(key, value, ttl)
    \/ \E key \in CacheKeys : GetEntry(key)
    \/ \E key \in CacheKeys : DeleteEntry(key)
    \/ ClockTick

SpecCache == Init /\ [][NextCache]_vars

\* the aliases of one ShippingService
NextAliases ==
    \/ \E service_variants \in AliasLists : CreateService(service_variants)
    \/ \E variant \in AliasArgs : AddVariant(variant)

SpecAliases == Init /\ [][NextAliases]_vars

\* Weight.parse and the constructor of Weight
NextWeight ==
    \/ \E part \in WeightParts : TypeWeightPart(part)
    \/ \E w \in WeightDecimals, unit \in FormUnits : FormatWeight(w, unit)
    \/ WeightParse
    \/ \E value \in WeightDecimals : WeightInit(value)

SpecWeight == Init /\ [][NextWeight]_vars

\* the loader and the use case over a directory of files
NextLoader ==
    \/ \E path \in DirectoryPaths : PutFile(path)
    \/ \E pdf_path \in LoaderPaths : LoadPdf(pdf_path)
    \/ LoadPdfsFromDirectory
    \/ ExecuteFromDirectory

SpecLoader == Init /\ [][NextLoader]_vars

\* searches that run concurrently, while files are loaded and time passes
NextConcurrent ==
    \/ \E path \in Paths : LoadFromPdf(path)
    \/ Tick
    \/ \E t \in Threads, q \in ConcurrentQueries, use_cache \in BOOLEAN :
           Call(t, q, use_cache)
    \/ \E t \in Threads : Step(t)
    \/ \E t \in Threads : Return(t)

SpecConcurrent == Init /\ [][NextConcurrent]_vars

\* every thread that is inside search takes its next step eventually
FairConcurrent == SpecConcurrent /\ \A t \in Threads : WF_vars(Step(t))

----------------------------------------------------------------------------
(* Properties of the query parser *)

\* the query the parser works on: the typed text without the white space
\* around it
Typed == Strip(Text(query))

\* the zone token of q: the leftmost text of the form z<digits> or
\* zone<digits>
ZoneToken(q) == zone_search(q)

\* the weight token of q, with its offsets in q: the leftmost weight text
\* after the zone token, else the leftmost one before it; in a query
\* without a zone token, the leftmost weight text
WeightToken(q) ==
    LET z == ZoneToken(q)
        after == weight_search(SliceFrom(q, z.end))
    IN  IF ~z.some THEN weight_search(q)
        ELSE IF after.some
        THEN [some |-> TRUE, start |-> z.end + after.start,
              end |-> z.end + after.end, group |-> after.group]
        ELSE weight_search(Slice(q, 0, z.start))

\* the parse failed with an InvalidQueryException of the given reason
Rejected(text) ==
    /\ ~result.out.ok
    /\ result.out.exc.type = "InvalidQueryException"
    /\ result.out.exc.message.reason.text = text

\* C1: in the space-separated grammar, the service type of a parsed query
\* that has a zone token and a weight token is the trimmed text before the
\* token that starts first, and "Standard" when that text is empty
C1_ServiceTypeBeforeFirstToken ==
    (/\ result.done
     /\ ZoneToken(Typed).some /\ WeightToken(Typed).some
     /\ result.out.ok)
    => LET first == Min(ZoneToken(Typed).start, WeightToken(Typed).start)
           before == Strip(Slice(Typed, 0, first))
       IN  result.out.service_type =
               IF before = <<>> THEN <<"S","t","a","n","d","a","r","d">>
               ELSE before

\* C8: in the space-separated grammar, the packaging type of a parsed query
\* is the trimmed text after the token that ends last, and None when no
\* text follows it
C8_PackagingAfterLastToken ==
    (/\ result.done
     /\ ZoneToken(Typed).some /\ WeightToken(Typed).some
     /\ result.out.ok)
    => LET last == Max(ZoneToken(Typed).end, WeightToken(Typed).end)
           after == Strip(SliceFrom(Typed, last))
       IN  result.out.packaging_type =
               IF after = <<>> THEN None ELSE Some(after)

\* the text of the i-th typed part of a comma-separated query
Part(i) == IF i = 1 THEN query[1] ELSE Tail(query[i])

\* C9: a comma-separated query of fewer than 3 or more than 4 parts is
\* rejected with InvalidQuery; one of 3 or 4 parts with a non-empty first
\* part, a valid zone text and a valid weight text parses to these three,
\* with the fourth part, when there is one and it is not blank, as packaging
C9_CommaPartCount ==
    (result.done /\ Len(query) >= 2)
    => /\ (Len(query) < 3 \/ Len(query) > 4)
            => /\ ~result.out.ok
               /\ result.out.exc.type = "InvalidQueryException"
       /\ (/\ Len(query) \in {3, 4}
           /\ Strip(Part(1)) # <<>>
           /\ Zone_parse(Part(2)).ok
           /\ Weight_parse(Part(3)).ok)
            => /\ result.out.ok
               /\ result.out.service_type = Strip(Part(1))
               /\ result.out.zone = Zone_parse(Part(2)).value
               /\ result.out.weight = Weight_parse(Part(3)).value
               /\ result.out.packaging_type =
                      IF Len(query) = 4 /\ Strip(Part(4)) # <<>>
                      THEN Some(Strip(Part(4))) ELSE None

\* a query of four parts was parsed, the fourth part being its packaging
C9_Witness ==
    /\ result.done /\ Len(query) = 4
    /\ result.out.ok /\ result.out.packaging_type.some

\* C10: a space-separated query without a zone token is rejected with the
\* reason "Cannot find zone in query"; one with a zone token and without a
\* weight token is rejected with the reason "Cannot find weight in query"
C10_MissingTokenNamed ==
    (result.done /\ Typed # <<>>)
    => /\ ~ZoneToken(Typed).some => Rejected("Cannot find zone in query")
       /\ (ZoneToken(Typed).some /\ ~WeightToken(Typed).some)
            => Rejected("Cannot find weight in query")

\* a query with a weight token and no zone token was rejected
C10_Witness ==
    /\ result.done
    /\ ~ZoneToken(Typed).some /\ WeightToken(Typed).some
    /\ ~result.out.ok

----------------------------------------------------------------------------
(* Properties of ShippingService *)

\* C3: right after set_price(zone, w, p) has been executed, get_price(zone,
\* w') returns p for every weight w' that is numerically equal to w,
\* whatever set_price calls came before
C3_GetPriceReturnsLastSetPrice ==
    (last_call.op = "set_price" /\ last_call.ok)
    => \A w2 \in WeightArgs :
           DecEq(w2, last_call.weight)
           => get_price(<<"s">>, price_table, last_call.zone, w2)
                  = [ok |-> TRUE, value |-> last_call.price]

\* the prices that the table holds for the zone under the weight keys that
\* are numerically equal to the weight
StoredPrices(zone, weight) ==
    IF ~DictHas(price_table, zone) THEN {}
    ELSE LET zone_prices == DictGet(price_table, zone)
         IN  { zone_prices[i].value :
                   i \in { j \in 1..Len(zone_prices) :
                               DecEq(zone_prices[j].key, weight) } }

\* get_price failed with PriceNotFound
PriceNotFound ==
    /\ ~last_call.out.ok
    /\ last_call.out.exc.type = "PriceNotFoundException"

\* C13: get_price(zone, weight) raises PriceNotFound exactly when the table
\* has no entry for the zone or the entry of the zone has no weight key
\* that is numerically equal to the weight; otherwise it returns a price
\* stored under such a key; the call leaves the price table as it was
C13_PriceNotFoundExactlyWhenAbsent ==
    /\ [](last_call.op = "get_price"
            => IF StoredPrices(last_call.zone, last_call.weight) = {}
               THEN PriceNotFound
               ELSE /\ last_call.out.ok
                    /\ last_call.out.value
                           \in StoredPrices(last_call.zone, last_call.weight))
    /\ [][last_call'.op = "get_price" => price_table' = price_table]_vars

----------------------------------------------------------------------------
(* Properties of the table extractor *)

\* the rows after the two header rows of the table that was extracted
DataRows == SliceFrom(extraction.table, Min(2, Len(extraction.table)))

\* the row has a cell in the service column, and the cell yields a price
YieldsPrice(row, column) ==
    /\ column.idx < Len(row)
    /\ _extract_price_from_cell(row[column.idx + 1], <<>>).some

\* the row names the weight and yields a price in every service column
CompleteFor(row, weight) ==
    /\ \E i \in 1..Len(RowWeights(row)) : RowWeights(row)[i] = weight
    /\ \A c \in 1..Len(extraction.service_columns) :
           YieldsPrice(row, extraction.service_columns[c])

\* the prices are those of the row in the service columns, in the order
\* of the columns
PricesFrom(prices, row) ==
    /\ Len(prices) = Len(extraction.service_columns)
    /\ \A c \in 1..Len(prices) :
           Some(prices[c]) =
               _extract_price_from_cell(
                   row[extraction.service_columns[c].idx + 1], <<>>)

\* C14: every price list of weight_prices has one price per service
\* column, in the order of the columns, taken from a row that names the
\* weight and yields a price in every service column; a row that lacks a
\* price for a column contributes no entry
C14_OnlyCompleteRowsRecorded ==
    extraction.done
    => \A k \in 1..Len(extraction.weight_prices) :
           /\ Len(extraction.weight_prices[k].value)
                  = Len(extraction.service_columns)
           /\ \E r \in 1..Len(DataRows) :
                  /\ CompleteFor(DataRows[r], extraction.weight_prices[k].key)
                  /\ PricesFrom(extraction.weight_prices[k].value,
                                DataRows[r])

\* a table was extracted that has a row with a weight and without a price
\* for one of two service columns, and a row that was recorded
C14_Witness ==
    /\ extraction.done
    /\ Len(extraction.service_columns) = 2
    /\ extraction.weight_prices # <<>>
    /\ \E r \in 1..Len(DataRows) :
           /\ RowWeights(DataRows[r]) # <<>>
           /\ ~CompleteFor(DataRows[r], RowWeights(DataRows[r])[1])
           /\ ~DictHas(extraction.weight_prices,
                       RowWeights(DataRows[r])[1])

----------------------------------------------------------------------------
(* Properties of the assembler *)

\* the table has a price for the service, the zone and the weight text
Holds(table, service_name, zone, weight) ==
    /\ table.zone = zone
    /\ \E c \in 1..Len(table.service_columns) :
           table.service_columns[c] = service_name
    /\ DictHas(table.weight_prices, weight)

\* the price that the table has for the service and the weight text
TablePrice(table, service_name, weight) ==
    DictGet(table.weight_prices, weight)[
        CHOOSE c \in 1..Len(table.service_columns) :
            table.service_columns[c] = service_name]

\* the tables of the list that hold a price for the service, the zone and
\* the weight text, by their places in the list
Holders(service_name, zone, weight) ==
    {i \in 1..Len(assembled.tables) :
        Holds(assembled.tables[i], service_name, zone, weight)}

\* the service data has a price for the service, the zone and the weight
IsStored(service_name, zone, weight) ==
    /\ DictHas(assembled.service_data, service_name)
    /\ DictHas(DictGet(assembled.service_data, service_name).zone_prices,
               zone)
    /\ DictHas(DictGet(DictGet(assembled.service_data,
                                service_name).zone_prices, zone), weight)

StoredPrice(service_name, zone, weight) ==
    DictGet(DictGet(DictGet(assembled.service_data,
                            service_name).zone_prices, zone), weight)

\* C15: in the service data built from a list of tables, the price stored
\* for a service, a zone and a weight is the price of the last table of
\* the list that has one for them, and nothing is stored for a service, a
\* zone and a weight that no table has a price for
C15_LastTableWins ==
    assembled.done
    => \A name \in {FedEx2Day, FedExGround}, zone \in TableZones,
          weight \in {<<"1">>, <<"1",".","0">>, <<"2">>} :
           IF Holders(name, zone, weight) = {}
           THEN ~IsStored(name, zone, weight)
           ELSE /\ IsStored(name, zone, weight)
                /\ \E i \in Holders(name, zone, weight) :
                       /\ \A j \in Holders(name, zone, weight) : j <= i
                       /\ StoredPrice(name, zone, weight)
                              = TablePrice(assembled.tables[i], name, weight)

\* the service data was built from two tables that have different prices
\* for the same service, zone and weight
C15_Witness ==
    /\ assembled.done
    /\ Len(assembled.tables) = 2
    /\ Holders(FedEx2Day, 5, <<"1">>) = {1, 2}
    /\ TablePrice(assembled.tables[1], FedEx2Day, <<"1">>)
           # TablePrice(assembled.tables[2], FedEx2Day, <<"1">>)

----------------------------------------------------------------------------
(* Properties of the service factory *)

\* the text is a decimal numeral of a positive number: digits with at most
\* one period, one of the digits not zero
PositiveDecimal(text) ==
    /\ \A i \in 1..Len(text) : IsDigit(text[i]) \/ text[i] = "."
    /\ Cardinality({i \in 1..Len(text) : text[i] = "."}) <= 1
    /\ \E i \in 1..Len(text) : IsDigit(text[i]) /\ text[i] # "0"

\* the triple is well formed
WellFormedTriple(t) ==
    /\ t.zone \in MIN_ZONE..MAX_ZONE
    /\ PositiveDecimal(t.weight_str)
    /\ t.price >= 0

\* the price table has the price of the triple under the zone of the
\* triple and a weight key that is the number of its weight text
InTable(table, t) ==
    /\ DictHas(table, t.zone)
    /\ \E k \in 1..Len(DictGet(table, t.zone)) :
           /\ DecEq(DictGet(table, t.zone)[k].key,
                    DecimalOf(t.weight_str).value)
           /\ DictGet(table, t.zone)[k].value = t.price

\* the (zone, weight text, price) triples of the service data that was
\* handed to the factory
GivenTriples == Triples(created.service_data.zone_prices)

\* C16: the price table of the service that create_shipping_service
\* returns holds every triple of the service data that has a zone from 1
\* to 8, a weight text that is a positive decimal and a price that is not
\* negative, and it holds nothing else
C16_ExactlyWellFormedTriples ==
    created.done
    => /\ \A i \in 1..Len(GivenTriples) :
              WellFormedTriple(GivenTriples[i])
              => InTable(created.service.price_table, GivenTriples[i])
       /\ \A z \in 1..Len(created.service.price_table) :
              \A k \in 1..Len(created.service.price_table[z].value) :
                  \E i \in 1..Len(GivenTriples) :
                      /\ WellFormedTriple(GivenTriples[i])
                      /\ GivenTriples[i].zone
                             = created.service.price_table[z].key
                      /\ GivenTriples[i].price
                             = created.service.price_table[z].value[k].value
                      /\ DecEq(created.service.price_table[z].value[k].key,
                               DecimalOf(GivenTriples[i].weight_str).value)

----------------------------------------------------------------------------
(* Properties of ServiceMatcher *)

\* the words of a text, joined by single blanks
RECURSIVE JoinWords(_, _, _)
JoinWords(s, started, gap) ==
    IF s = <<>> THEN <<>>
    ELSE IF IsSpace(Head(s)) THEN JoinWords(Tail(s), started, started)
    ELSE (IF gap THEN <<" ">> ELSE <<>>) \o <<LowerChar(Head(s))>>
             \o JoinWords(Tail(s), TRUE, FALSE)

\* the normal form of a service name: lower case, without hyphens, periods
\* and underscores, its words joined by single blanks
NormalForm(s) ==
    JoinWords(SelectSeq(s, LAMBDA c : c \notin {"-", ".", "_"}), FALSE, FALSE)

\* the places of the list whose service has the query as its name or as
\* one of its aliases, in normal form
Hits(q, list) ==
    {i \in 1..Len(list) :
        \/ NormalForm(list[i].service_name) = NormalForm(q)
        \/ \E k \in 1..Len(list[i].service_variants) :
               NormalForm(list[i].service_variants[k]) = NormalForm(q)}

\* C6: match_service returns the first service of the list whose normalized
\* name or one of whose normalized aliases equals the normalized query, and
\* None exactly when the list has no such service
C6_FirstNormalizedMatch ==
    matched.done
    => LET hits == Hits(matched.query_service, available)
       IN  IF hits = {} THEN ~matched.out.some
           ELSE /\ matched.out.some
                /\ matched.out.index \in hits
                /\ \A i \in hits : matched.out.index <= i
                /\ matched.out.val = available[matched.out.index]

\* two services of the list match through an alias only, in normal form
\* but not as written, and the first of them was returned
C6_Witness ==
    /\ matched.done
    /\ Hits(matched.query_service, available) = {1, 2}
    /\ \A i \in {1, 2} :
           /\ NormalForm(available[i].service_name)
                  # NormalForm(matched.query_service)
           /\ \A k \in 1..Len(available[i].service_variants) :
                  Lower(available[i].service_variants[k])
                      # Lower(matched.query_service)
    /\ matched.out.some /\ matched.out.index = 1

----------------------------------------------------------------------------
(* Properties of PriceSearchService.search *)

\* the fields of a response the caller compares
Core(r) == <<r.success, r.price, r.service, r.zone, r.weight>>

\* the response of the DataNotLoaded failure
DataNotLoaded(r) ==
    /\ ~r.success /\ r.price = None
    /\ r.error_message.some
    /\ r.error_message.val.text = "No price data loaded"

\* the response of the ServiceNotAvailable failure
ServiceNotAvailable(r) ==
    /\ ~r.success /\ r.price = None
    /\ r.error_message.some
    /\ r.error_message.val.text = "Service not available"

\* C2: a search whose query the parser rejects returns a failure that is
\* an invalid-query failure with the reason of the parser, and the call
\* matches no service, looks up no price and writes nothing to the cache
C2_RejectedQueryIsInvalidQuery ==
    (trace.ran /\ trace.parsed = "rejected")
    => /\ ~response.success
       /\ response.error_message.some
       /\ response.error_message.val.text = "Invalid query"
       /\ response.error_message.val.detail
              = ParsedQuery[trace.query].exc.message.reason
       /\ ~trace.matching /\ ~trace.lookup /\ ~trace.cache_write

\* C4: a search with use_cache = true returns the success flag, price,
\* service, zone and weight that a search of the same query with
\* use_cache = false returns at that moment
C4_CacheIsOnlyAcceleration ==
    (trace.ran /\ trace.use_cache)
    => Core(response)
           = Core(search(trace.query, FALSE, services, cache, now).response)

\* C5: with no service in the repository, a search of a parseable query
\* fails with DataNotLoaded: not with ServiceNotAvailable, not with a
\* price, not with a response of the cache
C5_EmptyRepositoryIsDataNotLoaded ==
    (trace.ran /\ services = <<>> /\ ParsedQuery[trace.query].ok)
    => /\ DataNotLoaded(response)
       /\ ~ServiceNotAvailable(response)
       /\ ~trace.cache_hit

\* a search with use_cache = true found the repository empty while the
\* cache held a live response for its query
C5_Witness ==
    /\ trace.ran /\ trace.use_cache /\ services = <<>>
    /\ ParsedQuery[trace.query].ok
    /\ cache_get(cache, _make_cache_key(trace.query), now).value.some
    /\ DataNotLoaded(response)

\* the services of the repository that match the service type of the
\* parsed query of the last search
Unmatched ==
    ~match_service(ParsedQuery[trace.query].service_type,
                   get_all_services(services)).some

\* the service type of the last search is a generic sentinel
IsSentinel ==
    Lower(ParsedQuery[trace.query].service_type)
        \in { <<"s","t","a","n","d","a","r","d">>,
              <<"d","e","f","a","u","l","t">>,
              <<"g","e","n","e","r","i","c">> }

\* the outcome of a search that uses the given service
Uses(service) ==
    LET price_query == ParsedQuery[trace.query]
        price == get_price(service.service_name, service.price_table,
                           price_query.zone, price_query.weight)
    IN  IF price.ok
        THEN /\ response.success
             /\ response.service = Some(service.service_name)
             /\ response.price = Some(price.value)
        ELSE /\ ~response.success
             /\ response.error_message.val.text = "Price not found"

\* C7: a search that parsed its query and found no matching service among
\* at least one loaded service uses the first service of the repository
\* when the service type is a generic sentinel, and otherwise fails with
\* ServiceNotAvailable, without a price
C7_GenericFallbackOrNotAvailable ==
    (/\ trace.ran /\ trace.parsed = "ok"
     /\ services # <<>> /\ Unmatched)
    => IF IsSentinel
       THEN Uses(get_all_services(services)[1])
       ELSE ServiceNotAvailable(response)

\* a search of a generic service type took the price of the first of two
\* loaded services, whose price differs from that of the second
C7_Witness ==
    /\ trace.ran /\ trace.parsed = "ok"
    /\ Len(get_all_services(services)) = 2 /\ Unmatched /\ IsSentinel
    /\ response.success
    /\ response.service = Some(get_all_services(services)[1].service_name)
    /\ ~Uses(get_all_services(services)[2])

----------------------------------------------------------------------------
(* Properties of the zone of a query *)

\* a text of the form z<digits>, zone<digits> or <digits> whose number is
\* not one of 1..8
DenotesZoneOutside(text) ==
    LET t == Lower(Strip(text))
        digits == SelectSeq(t, IsDigit)
        letters == SelectSeq(t, LAMBDA c : ~IsDigit(c) /\ ~IsSpace(c))
    IN  /\ digits # <<>>
        /\ letters \in {<<>>, <<"z">>, <<"z","o","n","e">>}
        /\ t = letters \o SelectSeq(t, IsSpace) \o digits
        /\ ToInt(digits) \notin 1..8

\* the query of the last search, as the parser sees it
Searched == Strip(trace.query)

\* the query of the last search is written with commas
WithCommas == \E i \in 1..Len(Searched) : Searched[i] = ","

\* the text that the grammar of the query hands to Zone.parse: the second
\* part of a comma-separated query of 3 or 4 parts whose first part is not
\* blank, the zone token of a space-separated query that has a weight
\* token; no text otherwise
ZoneTextParsed ==
    IF WithCommas
    THEN IF /\ Len(Split(Searched)) \in {3, 4}
            /\ Strip(Split(Searched)[1]) # <<>>
         THEN Some(Split(Searched)[2]) ELSE None
    ELSE IF ZoneToken(Searched).some /\ WeightToken(Searched).some
         THEN Some(ZoneToken(Searched).group) ELSE None

\* the parser rejected the query of the last search with an
\* InvalidQueryException that wraps the range failure of Zone
RejectedForZone ==
    LET parsed == ParsedQuery[trace.query]
    IN  /\ ~parsed.ok
        /\ parsed.exc.type = "InvalidQueryException"
        /\ parsed.exc.message.reason
               = Reason("Invalid zone", "Zone must be between 1 and 8")

----------------------------------------------------------------------------
(* Properties of concurrent searches *)

\* a response with a price when it says success, with an error message
\* when it does not
WellFormed(r) ==
    /\ "success" \in DOMAIN r
    /\ IF r.success THEN r.price.some ELSE r.error_message.some

\* no exception has left a search call, and a call that returned gave a
\* well-formed response
NoneEscaped ==
    \A t \in Threads :
        /\ calls[t].pc # "raised"
        /\ calls[t].pc = "returned"
               => calls[t].out.some /\ WellFormed(calls[t].out.val)

\* C12: every search call, also when searches run concurrently on the same
\* repository and the same cache, ends by returning a response that has a
\* price when success is true and an error message when it is false; no
\* exception leaves the call
C12_SearchAlwaysReturnsResponse ==
    /\ []NoneEscaped
    /\ \A t \in Threads :
           (calls[t].pc # "idle") ~> (calls[t].pc = "returned")

\* two threads have read the same expired entry of the cache, both went on
\* to delete it and to search again, and both calls have returned a
\* response with a price
C12_Witness ==
    \E t \in Threads, u \in Threads :
        /\ t # u
        /\ calls[t].pc = "returned" /\ calls[u].pc = "returned"
        /\ calls[t].entry.some /\ calls[t].entry = calls[u].entry
        /\ _is_expired(calls[t].entry.val, now)
        /\ WellFormed(calls[t].out.val) /\ calls[t].out.val.success
        /\ WellFormed(calls[u].out.val) /\ calls[u].out.val.success


----------------------------------------------------------------------------
(* Properties of the loader *)

\* a file that loads: a document that pdfplumber opens and that is not
\* larger than the loader accepts
LoadsWell(path) == files[path] = "present"

\* the files of a list that load
Loading(pdf_files) ==
    {i \in 1..Len(pdf_files) : LoadsWell(pdf_files[i])}

\* the call recorded is a call of op on a directory with at least one file
DirectoryCall(op) == load_call.op = op /\ load_call.pdf_files # <<>>

\* C17: load_pdfs_from_directory over a directory with at least one PDF
\* returns the number of the files that loaded when at least one file
\* loads, the files that fail being skipped and the others being stored,
\* and it raises PDFLoadException exactly when every file fails to load.
C17_DirectoryLoadCountsOrRaises ==
    DirectoryCall("load_pdfs_from_directory")
    => /\ \A i \in Loading(load_call.pdf_files) :
              \E j \in 1..Len(source_files) :
                  source_files[j] = load_call.pdf_files[i]
       /\ IF Loading(load_call.pdf_files) = {}
          THEN ~load_call.ok /\ load_call.exc.type = "PDFLoadException"
          ELSE /\ load_call.ok
               /\ load_call.value = Cardinality(Loading(load_call.pdf_files))

\* a directory of two files of which one fails was loaded, and 1 returned
C17_Witness ==
    /\ DirectoryCall("load_pdfs_from_directory")
    /\ Len(load_call.pdf_files) = 2
    /\ Cardinality(Loading(load_call.pdf_files)) = 1
    /\ load_call.ok /\ load_call.value = 1

\* a query that the parser accepts, for the search that follows a load
FollowingQuery == <<"2","D","a","y",","," ","z","5",","," ","3"," ","l","b">>

\* the call recorded loaded a file or a directory with at least one file
\* and reported success: it returned normally and, for the use case, its
\* result says success
ReportedSuccess ==
    /\ load_call.op \in {"load_pdf", "load_pdfs_from_directory",
                         "execute_from_directory"}
    /\ load_call.pdf_files # <<>>
    /\ load_call.ok
    /\ load_call.op = "execute_from_directory" => load_call.value.success

\* C18: whenever loading a PDF or a directory with at least one PDF reports
\* success, the repository holds at least one service afterwards, and the
\* search that follows is not answered with DataNotLoaded.
C18_SuccessfulLoadLeavesData ==
    ReportedSuccess
    => /\ Len(services) >= 1
       /\ ~DataNotLoaded(search(FollowingQuery, FALSE, services, cache,
                                now).response)

\* C19: execute_from_directory raises PDFLoadException when the directory
\* has at least one PDF and every PDF in it fails to load.
C19_UseCaseRaisesWhenAllFail ==
    (DirectoryCall("execute_from_directory")
        /\ Loading(load_call.pdf_files) = {})
    => ~load_call.ok /\ load_call.exc.type = "PDFLoadException"

----------------------------------------------------------------------------
(* Properties of Zone *)

\* the decimal digits of a zone number from 1 to 8
DigitOf(z) == Digits[z + 1]

\* the forms of a zone: "z5", "Z5", "zone 5", "Zone 5" and "5"
ZoneForms(digits) ==
    { <<"z">> \o digits, <<"Z">> \o digits,
      <<"z","o","n","e"," ">> \o digits, <<"Z","o","n","e"," ">> \o digits,
      digits }

\* the digit strings of which a text is a form, if it is one
FormDigits(text) ==
    {SubSeq(text, k, Len(text)) : k \in 1..Len(text)}
    \cap {d \in {SubSeq(text, k, Len(text)) : k \in 1..Len(text)} :
             /\ \A i \in 1..Len(d) : d[i] \in DigitSet
             /\ text \in ZoneForms(d)}

\* the number that a string of decimal digits writes
RECURSIVE NumberOf(_)
NumberOf(digits) ==
    IF digits = <<>> THEN 0
    ELSE 10 * NumberOf(SubSeq(digits, 1, Len(digits) - 1))
         + (CHOOSE n \in 0..9 : Digits[n + 1] = digits[Len(digits)])

InvalidZone(r) == ~r.ok /\ r.exc.type = "InvalidZoneException"

\* C20: for every z in 1..8, Zone.parse of "z{z}", "Z{z}", "zone {z}",
\* "Zone {z}" and "{z}" returns the zone z; a number outside 1..8 in one of
\* these forms and a text without a digit fail with InvalidZoneException;
\* and no Zone that Zone.parse or the constructor returns has a value
\* outside 1..8.
C20_ZoneParseForms ==
    /\ zone_call.op = "parse"
       => /\ \A z \in 1..8 :
                 zone_call.zone_str \in ZoneForms(<<DigitOf(z)>>)
                 => zone_call.zone.ok /\ zone_call.zone.value = z
          /\ \A d \in FormDigits(zone_call.zone_str) :
                 NumberOf(d) \notin 1..8 => InvalidZone(zone_call.zone)
          /\ (\A i \in 1..Len(zone_call.zone_str) :
                  zone_call.zone_str[i] \notin DigitSet)
             => InvalidZone(zone_call.zone)
    /\ zone_call.op \in {"parse", "init"}
       => /\ zone_call.zone.ok => zone_call.zone.value \in 1..8
          /\ ~zone_call.zone.ok => InvalidZone(zone_call.zone)

\* "Zone 8" was parsed and gave the zone 8
C20_Witness ==
    /\ zone_call.op = "parse"
    /\ zone_call.zone_str = <<"Z","o","n","e"," ","8">>
    /\ zone_call.zone.ok /\ zone_call.zone.value = 8

----------------------------------------------------------------------------
(* Properties of Weight *)

\* the entry of a price table for a zone and a weight key, if there is one
EntryOf(table, zone, weight_key) ==
    IF DictHas(table, zone) /\ DictHas(DictGet(table, zone), weight_key)
    THEN Some(DictGet(DictGet(table, zone), weight_key))
    ELSE None

\* the zones that have a map in a price table
ZonesOf(table) == {table[i].key : i \in 1..Len(table)}

\* the step is a set_price call
IsSetPrice ==
    last_call'.op = "set_price" /\ last_call'.calls = last_call.calls + 1

\* C23: set_price(zone, weight, price) with a price that is zero or
\* positive sets the entry of that zone and that weight key to the price,
\* creating the map of the zone when it is absent, and leaves every other
\* entry and every other zone as it was; with a negative price it raises
\* ValueError and leaves the price table unchanged.
C23_SetPriceChangesOneEntry ==
    [][IsSetPrice
       => IF last_call'.price >= 0
          THEN /\ last_call'.ok
               /\ EntryOf(price_table', last_call'.zone, last_call'.weight)
                      = Some(last_call'.price)
               /\ ZonesOf(price_table')
                      = ZonesOf(price_table) \cup {last_call'.zone}
               /\ \A z \in ZoneArgs, w \in WeightArgs :
                      <<z, w>> # <<last_call'.zone, last_call'.weight>>
                      => EntryOf(price_table', z, w)
                             = EntryOf(price_table, z, w)
          ELSE ~last_call'.ok /\ price_table' = price_table]_vars

\* a price was set in a table that has prices of two zones, two of them in
\* one zone
C23_Witness ==
    /\ last_call.op = "set_price" /\ last_call.ok
    /\ Cardinality(ZonesOf(price_table)) = 2
    /\ \E i \in 1..Len(price_table) : Len(price_table[i].value) = 2

\* the value that get is to return at a time, by the sets and deletes made
Expected(key, t) ==
    IF last_set[key].some /\ t < last_set[key].val.at + last_set[key].val.ttl
    THEN Some(last_set[key].val.value)
    ELSE None

\* C24: PriceCache.get(key) returns the value most recently set for the key
\* if and only if such an entry exists and the current time is strictly
\* before its expiry, the time of the set plus the ttl; otherwise it returns
\* None, and after it the cache holds no expired entry for the key.
C24_GetReturnsUnexpiredValue ==
    cache_call.op = "get"
    => /\ cache_call.value = Expected(cache_call.key, cache_call.at)
       /\ cache_call.value = None => cache_call.key \notin DOMAIN cache

\* get found the entry expired at the very time of its expiry
C24_Witness ==
    /\ cache_call.op = "get"
    /\ last_set[cache_call.key].some
    /\ cache_call.at = last_set[cache_call.key].val.at
                           + last_set[cache_call.key].val.ttl
    /\ last_set[cache_call.key].val.ttl > 0
    /\ cache_call.value = None

\* the services of a repository: their names with their price tables
ServicesIn(stored) ==
    {[service_name |-> stored[i].value.service_name,
      price_table |-> stored[i].value.price_table] : i \in 1..Len(stored)}

\* C25: after successful load_from_pdf calls, refresh_data with every source
\* file there to load leaves the repository with the same services: the
\* same names, the same count and the same price tables.
C25_RefreshKeepsServices ==
    (repo_call.op = "refresh_data" /\ repo_call.loadable)
    => /\ Len(services) = Len(repo_call.services)
       /\ ServicesIn(services) = ServicesIn(repo_call.services)

\* C27: refresh_data loses no tracked source file: the list after it is the
\* list before it, also when files fail to reload.
C27_RefreshKeepsSourceFiles ==
    repo_call.op = "refresh_data" => source_files = repo_call.source_files

\* C28: a load_from_pdf call that raises, for a missing file or a failure of
\* the parser, leaves the services with their price tables and the source
\* files as they were before the call.
C28_FailedLoadLeavesRepository ==
    (repo_call.op = "load_from_pdf" /\ ~repo_call.ok)
    => /\ services = repo_call.services
       /\ source_files = repo_call.source_files

\* the parser failed on a file while the repository held services of two
\* files
C28_Witness ==
    /\ repo_call.op = "load_from_pdf" /\ ~repo_call.ok
    /\ files[repo_call.file_path] = "corrupt"
    /\ Len(repo_call.source_files) = 2
    /\ Len(repo_call.services) = 2

\* C26: the search service caches successful results only: every entry of
\* the cache holds a success response, and a search that answers with an
\* error did not take its answer from the cache but evaluated the query.
C26_OnlySuccessIsCached ==
    /\ \A k \in DOMAIN cache : cache[k].value.success
    /\ (trace.ran /\ ~response.success) => ~trace.cache_hit

\* a search that asked for the cache went as far as the price lookup and
\* failed there, while the cache held results of other searches
C26_Witness ==
    /\ trace.ran /\ trace.use_cache /\ trace.lookup
    /\ ~response.success
    /\ DOMAIN cache # {}
    /\ _make_cache_key(trace.query) \notin DOMAIN cache

\* C29: threads that call get, exists or clear_expired on a PriceCache
\* while an entry expires never raise: every call returns, get returns None
\* or a value, exists returns a boolean and clear_expired a count.
C29_ConcurrentAccessNeverRaises ==
    \A t \in Workers :
        /\ workers[t].pc # "raised"
        /\ workers[t].pc = "returned"
           => IF workers[t].op = "get"
              THEN workers[t].value \in {None} \cup {Some(v) : v \in CacheValues}
              ELSE IF workers[t].op = "exists"
              THEN workers[t].value \in BOOLEAN
              ELSE workers[t].value \in 0..Cardinality(CacheKeys)

\* C30: in a service that ServiceFactory built, and after any set_price
\* calls on it, every zone key of the price table is an integer from 1 to
\* 8 and every stored price is zero or positive.
C30_CreatedTableIsValid ==
    created.done
    => \A i \in 1..Len(created.service.price_table) :
           /\ created.service.price_table[i].key \in MIN_ZONE..MAX_ZONE
           /\ \A k \in 1..Len(created.service.price_table[i].value) :
                  created.service.price_table[i].value[k].value >= 0

\* the factory was given a price for zone 9 and built a service with
\* prices, and a set_price call with a negative price followed
C30_Witness ==
    /\ created.done
    /\ "set_price" \in DOMAIN created
    /\ created.set_price.price < 0
    /\ created.service.price_table # <<>>
    /\ \E i \in 1..Len(created.service_data.zone_prices) :
           created.service_data.zone_prices[i].key = 9

InvalidWeight(r) == ~r.ok /\ r.exc.type = "InvalidWeightException"

\* the text parsed has no digit, or has the unit kg
NoNumberOrOtherUnit(text) ==
    \/ \A i \in 1..Len(text) : text[i] \notin DigitSet
    \/ Len(text) >= 2 /\ SubSeq(text, Len(text) - 1, Len(text)) = <<"k","g">>

\* C21: for every positive Decimal w, Weight.parse of "{w} lb", "{w}lb",
\* "{w} lbs" and "{w}" returns a weight equal to Weight(w); for a w that
\* is zero or negative, and for a text with another unit or without a
\* number, Weight.parse fails with InvalidWeightException; and no Weight
\* that Weight.parse or the constructor returns is zero or negative.
C21_WeightParseForms ==
    /\ (weight_call.op = "parse" /\ weight_from.some)
       => IF weight_from.val.m > 0
          THEN /\ weight_call.weight.ok
               /\ DecEq(weight_call.weight.value, weight_from.val)
          ELSE InvalidWeight(weight_call.weight)
    /\ (weight_call.op = "parse" /\ ~weight_from.some
           /\ NoNumberOrOtherUnit(weight_call.weight_str))
       => InvalidWeight(weight_call.weight)
    /\ weight_call.op \in {"parse", "init"}
       => /\ weight_call.weight.ok => weight_call.weight.value.m > 0
          /\ ~weight_call.weight.ok => InvalidWeight(weight_call.weight)

----------------------------------------------------------------------------
(* Properties of the aliases of a ShippingService *)

NoDuplicates(list) ==
    \A i, j \in 1..Len(list) : list[i] = list[j] => i = j

IsIn(list, text) == \E i \in 1..Len(list) : list[i] = text

\* the call raised ValueError and left the list as it was
RejectedAlias == ~alias_call.ok /\ aliases = alias_call.before

====
